---- MODULE Spec2Model ----
(***************************************************************************)
(* Tab component controller of src/tabs.js (and its data-attribute variant *)
(* src/unnamed/part_000): one mounted tab group, its DOM attributes, the   *)
(* autoplay timer with pause/resume and elapsed-time bookkeeping, the      *)
(* mobile dropdown and the event handlers that drive them.                 *)
(*                                                                         *)
(* Every handler of the source is a pure operator on a record of the       *)
(* group's state (one field per closure variable or DOM attribute); an     *)
(* action is one browser event: it applies the handler to the current      *)
(* state and stores the result.  Time is the wall clock of Date.now() in   *)
(* milliseconds; it advances in whole seconds and never past the deadline  *)
(* of a pending timer, so a timer fires exactly when it is due.            *)
(***************************************************************************)
EXTENDS Integers, FiniteSets, Sequences, TLC

\* ------------------------------------------------------------------ bounds
MaxTabs == 3
MaxTime == 3
MaxAdvance == 2
\* Seconds of clock time explored with the resize handler and cleanup.
MaxCleanupTime == 2
\* Clock ticks (a third of the debounce delay each) in which the window can be
\* resized.
MaxBurstTicks == 5
\* Slider elements on a page, and calls of AttributesSwiper.reinitialize.
MaxSliders == 2
MaxReinits == 4
\* Play and pause events queued on the video element and not yet fired;
\* continuations waiting for the running script to end.
MaxQueued == 2
MaxMicrotasks == 2
\* Seconds of clock time explored with two groups on one page.
MaxPairTime == 2
\* Theme-toggle checkboxes on a page.
MaxCheckboxes == 3

\* ------------------------------------------------------- program constants
\* `|| 5`: the default autoplay duration in seconds.
DefaultDuration == 5
\* autoplayDuration * 1000: seconds to milliseconds.
MsPerSecond == 1000
\* let autoplayStartTime = null
NULL == -1
\* let autoplayTimer = null (a timer id is a positive integer, null is falsy)
NoTimer == 0

Keys == {"ArrowLeft", "ArrowRight", "Home", "End", "Other"}
\* The keys pressed on a tab control: Escape is named because the document
\* listener of the dropdown reacts to it.
TabKeys == Keys \cup {"Escape"}

\* const INVERT_MODE = "light"
INVERT_MODE == "light"

\* window.innerWidth on a phone and on a desktop (clickHandler compares the
\* cached width with 768).
MobileWidth == 500
DesktopWidth == 1000
\* A width between the two, on the desktop side of 768.
TabletWidth == 800
\* setTimeout(..., 150): the debounce delay of the resize handler in ms.
ResizeDebounce == 150
\* setTimeout(..., 50): the delay of AttributesSwiper.reinitialize in ms.
ReinitDelay == 50

VARIABLES
    \* markup read once at mount
    tabMenu,              \* the menu container exists under the root
    dropdownMenu,         \* the dropdown menu element exists
    tabMenuWrapper,       \* the menu wrapper exists
    nLinks,               \* tabLinks.length
    nPanes,               \* tabPanes.length
    overlays,             \* links holding a [data-tabs-link-button] control
    linkIds,              \* link.id of every link
    linkNames,            \* link -> data-tab-link-name ("null" when absent)
    linkTexts,            \* link -> link.textContent
    isMobileDropdown,
    dropdownToggle,       \* the dropdown toggle element exists
    dropdownText,         \* the dropdown label element exists
    toggleButton,         \* the autoplay toggle button exists
    autoplayEnabled,
    autoplayDuration,     \* seconds
    autoplayHoverPause,
    \* DOM attributes written by the controller
    ariaSelected,         \* link -> aria-selected
    ccActive,             \* link -> has class cc-active
    tabindex,             \* link -> tabindex of its control ("0", "-1", "unset")
    ariaHidden,           \* pane -> aria-hidden
    textContent,          \* dropdownText.textContent
    menuOpen,             \* dropdownMenu has class cc-open
    toggleOpen,           \* dropdownToggle has class cc-open
    ariaExpanded,         \* dropdownToggle aria-expanded ("true", "false", "unset")
    pausedClass,          \* component has class autoplay-paused
    toggleLabel,          \* aria-label of the autoplay toggle button
    focus,                \* document.activeElement: "body", "toggle" or "link<i>"
    \* closure state
    currentActiveIndex,
    autoplayTimer,        \* id of the last scheduled timer, or NoTimer
    isAutoplayPaused,
    autoplayStartTime,    \* Date.now() at scheduling, or NULL
    autoplayElapsedTime,
    listeners,            \* names of the listeners registered by the group
    eventListeners,       \* names of the listeners pushed for cleanup (part_000)
    observing,            \* autoplayObserver is connected to the root
    resizeTimer,          \* id of the last debounce timer, or NoTimer
    cachedWindowWidth,
    \* browser
    timers,               \* pending timers of startAutoplay: [id, fireAt, delay]
    resizeTimers,         \* pending timers of the resize handler: [id, fireAt, delay]
    innerWidth,           \* window.innerWidth
    now,                  \* Date.now()
    \* environment and history
    visible,              \* latest observer report: "none", "yes", "no"
    hovered,              \* the pointer is inside the component
    manualOff,            \* the last toggle-button click paused autoplay
    runTime,              \* ms autoplay has run on the active tab since its activation
    redundantResume,      \* a resume arrived while running since the last activation
    lastEvent,            \* the event handled last
    siblings,             \* the roots after this one in document order, as records
    mountLog,             \* <<[hash, active]>>: fragment and cc-active links at mount
    cleaned,              \* cleanup() has been called
    \* theme toggle (src/theme-toggle.js, src/unnamed/part_001)
    scripts,              \* the scripts on the page: "theme" (light/dark), "invert"
    checkboxes,           \* checked state of every [data-theme-toggle="checkbox"]
    classList,            \* the mode classes on document.documentElement
    localStorage,         \* [savedTheme, invertMode], "null" for a missing key
    prefersDark,          \* matchMedia("(prefers-color-scheme: dark)").matches
    isLight,              \* closure variable of the light/dark script
    savedTheme,           \* localStorage.getItem("savedTheme") read at load
    savedMode,            \* localStorage.getItem("invertMode") read at load
    themeListeners,       \* names of the listeners the two scripts have registered
    \* the video library (src/inline-video.js) and the one video of its page
    library,
    \* the slider adapter (src/inline-video.js, last script) and its elements
    sliders

vars == <<tabMenu, dropdownMenu, tabMenuWrapper, listeners, eventListeners, observing,
          resizeTimer, cachedWindowWidth, resizeTimers, innerWidth,
          siblings, mountLog, cleaned,
          scripts, checkboxes, classList, localStorage, prefersDark, isLight,
          savedTheme, savedMode, themeListeners, library, sliders,
          nLinks, nPanes, overlays, linkIds, linkNames, linkTexts,
          isMobileDropdown, dropdownToggle,
          dropdownText, toggleButton, autoplayEnabled, autoplayDuration,
          autoplayHoverPause, ariaSelected, ccActive, tabindex, ariaHidden,
          textContent, menuOpen, toggleOpen, ariaExpanded, pausedClass,
          toggleLabel, focus, currentActiveIndex, autoplayTimer,
          isAutoplayPaused, autoplayStartTime, autoplayElapsedTime, timers, now,
          visible, hovered, manualOff, runTime, redundantResume, lastEvent>>

\* The state the handlers read and write, as one record.
St ==
    [tabMenu |-> tabMenu, dropdownMenu |-> dropdownMenu,
     tabMenuWrapper |-> tabMenuWrapper, listeners |-> listeners,
     eventListeners |-> eventListeners,
     observing |-> observing, resizeTimer |-> resizeTimer,
     cachedWindowWidth |-> cachedWindowWidth, resizeTimers |-> resizeTimers,
     innerWidth |-> innerWidth,
     nLinks |-> nLinks, nPanes |-> nPanes, overlays |-> overlays,
     linkIds |-> linkIds, linkNames |-> linkNames, linkTexts |-> linkTexts,
     isMobileDropdown |-> isMobileDropdown,
     dropdownToggle |-> dropdownToggle, dropdownText |-> dropdownText,
     toggleButton |-> toggleButton, autoplayEnabled |-> autoplayEnabled,
     autoplayDuration |-> autoplayDuration,
     autoplayHoverPause |-> autoplayHoverPause,
     ariaSelected |-> ariaSelected, ccActive |-> ccActive,
     tabindex |-> tabindex, ariaHidden |-> ariaHidden,
     textContent |-> textContent, menuOpen |-> menuOpen,
     toggleOpen |-> toggleOpen, ariaExpanded |-> ariaExpanded,
     pausedClass |-> pausedClass, toggleLabel |-> toggleLabel, focus |-> focus,
     currentActiveIndex |-> currentActiveIndex,
     autoplayTimer |-> autoplayTimer, isAutoplayPaused |-> isAutoplayPaused,
     autoplayStartTime |-> autoplayStartTime,
     autoplayElapsedTime |-> autoplayElapsedTime, timers |-> timers,
     now |-> now]

\* The state is r (used by Init).
Holds(r) ==
    /\ tabMenu = r.tabMenu /\ dropdownMenu = r.dropdownMenu
    /\ tabMenuWrapper = r.tabMenuWrapper /\ listeners = r.listeners
    /\ eventListeners = r.eventListeners
    /\ observing = r.observing /\ resizeTimer = r.resizeTimer
    /\ cachedWindowWidth = r.cachedWindowWidth
    /\ resizeTimers = r.resizeTimers /\ innerWidth = r.innerWidth
    /\ nLinks = r.nLinks /\ nPanes = r.nPanes /\ overlays = r.overlays
    /\ linkIds = r.linkIds /\ linkNames = r.linkNames /\ linkTexts = r.linkTexts
    /\ isMobileDropdown = r.isMobileDropdown
    /\ dropdownToggle = r.dropdownToggle /\ dropdownText = r.dropdownText
    /\ toggleButton = r.toggleButton /\ autoplayEnabled = r.autoplayEnabled
    /\ autoplayDuration = r.autoplayDuration
    /\ autoplayHoverPause = r.autoplayHoverPause
    /\ ariaSelected = r.ariaSelected /\ ccActive = r.ccActive
    /\ tabindex = r.tabindex /\ ariaHidden = r.ariaHidden
    /\ textContent = r.textContent /\ menuOpen = r.menuOpen
    /\ toggleOpen = r.toggleOpen /\ ariaExpanded = r.ariaExpanded
    /\ pausedClass = r.pausedClass /\ toggleLabel = r.toggleLabel
    /\ focus = r.focus /\ currentActiveIndex = r.currentActiveIndex
    /\ autoplayTimer = r.autoplayTimer /\ isAutoplayPaused = r.isAutoplayPaused
    /\ autoplayStartTime = r.autoplayStartTime
    /\ autoplayElapsedTime = r.autoplayElapsedTime /\ timers = r.timers
    /\ now = r.now

\* The next state is r (used by every action).
Becomes(r) ==
    /\ tabMenu' = r.tabMenu /\ dropdownMenu' = r.dropdownMenu
    /\ tabMenuWrapper' = r.tabMenuWrapper /\ listeners' = r.listeners
    /\ eventListeners' = r.eventListeners
    /\ observing' = r.observing /\ resizeTimer' = r.resizeTimer
    /\ cachedWindowWidth' = r.cachedWindowWidth
    /\ resizeTimers' = r.resizeTimers /\ innerWidth' = r.innerWidth
    /\ nLinks' = r.nLinks /\ nPanes' = r.nPanes /\ overlays' = r.overlays
    /\ linkIds' = r.linkIds /\ linkNames' = r.linkNames /\ linkTexts' = r.linkTexts
    /\ isMobileDropdown' = r.isMobileDropdown
    /\ dropdownToggle' = r.dropdownToggle /\ dropdownText' = r.dropdownText
    /\ toggleButton' = r.toggleButton /\ autoplayEnabled' = r.autoplayEnabled
    /\ autoplayDuration' = r.autoplayDuration
    /\ autoplayHoverPause' = r.autoplayHoverPause
    /\ ariaSelected' = r.ariaSelected /\ ccActive' = r.ccActive
    /\ tabindex' = r.tabindex /\ ariaHidden' = r.ariaHidden
    /\ textContent' = r.textContent /\ menuOpen' = r.menuOpen
    /\ toggleOpen' = r.toggleOpen /\ ariaExpanded' = r.ariaExpanded
    /\ pausedClass' = r.pausedClass /\ toggleLabel' = r.toggleLabel
    /\ focus' = r.focus /\ currentActiveIndex' = r.currentActiveIndex
    /\ autoplayTimer' = r.autoplayTimer /\ isAutoplayPaused' = r.isAutoplayPaused
    /\ autoplayStartTime' = r.autoplayStartTime
    /\ autoplayElapsedTime' = r.autoplayElapsedTime /\ timers' = r.timers
    /\ now' = r.now

Links(s) == 0 .. (s.nLinks - 1)
Panes(s) == 0 .. (s.nPanes - 1)

\* ------------------------------------------------------------ browser API
Max(a, b) == IF a >= b THEN a ELSE b

\* setTimeout returns an id no pending timer has.
newTimerId(s) ==
    CHOOSE id \in 1 .. (Cardinality(s.timers \cup s.resizeTimers) + 3) :
        /\ id # s.autoplayTimer
        /\ id # s.resizeTimer
        /\ \A t \in s.timers : t.id # id
        /\ \A t \in s.resizeTimers : t.id # id

\* Faulty variant: clearing one timer clears every pending timer.
clearTimeout_ClearsAll(s, id) ==
    [s EXCEPT !.timers = {}, !.resizeTimers = {}]

\* setTimeout(callback, delay): a negative delay is clamped to 0.
setTimeout(s, id, delay) ==
    [s EXCEPT !.timers = @ \cup {[id |-> id, fireAt |-> s.now + Max(0, delay),
                                  delay |-> delay]}]

\* clearTimeout(id): unknown and fired ids are ignored.
clearTimeout(s, id) ==
    [s EXCEPT !.timers = {t \in @ : t.id # id},
              !.resizeTimers = {t \in @ : t.id # id}]

\* ------------------------------------------------------------ dropdown
\* Faulty variant: closing leaves aria-expanded as it was.
closeDropdown_KeepsAria(s) ==
    IF ~s.dropdownToggle THEN s
    ELSE [s EXCEPT !.menuOpen = FALSE, !.toggleOpen = FALSE]

closeDropdown(s) ==
    IF ~s.dropdownToggle THEN s
    ELSE [s EXCEPT !.menuOpen = FALSE, !.toggleOpen = FALSE,
                   !.ariaExpanded = "false"]

\* Faulty variant: opening the dropdown drops the pending autoplay timer.
openDropdown_DropsTimer(s) ==
    IF ~s.dropdownToggle THEN s
    ELSE [s EXCEPT !.menuOpen = TRUE, !.toggleOpen = TRUE,
                   !.ariaExpanded = "true", !.timers = {}]

openDropdown(s) ==
    IF ~s.dropdownToggle THEN s
    ELSE [s EXCEPT !.menuOpen = TRUE, !.toggleOpen = TRUE,
                   !.ariaExpanded = "true"]

toggleDropdown(s) ==
    IF s.menuOpen THEN closeDropdown(s) ELSE openDropdown(s)

\* ------------------------------------------------------------ autoplay
\* Faulty variant: the cycle-start timestamp is not cleared.
stopAutoplay_KeepsStartTime(s) ==
    IF s.autoplayTimer # NoTimer
    THEN [clearTimeout(s, s.autoplayTimer) EXCEPT !.autoplayTimer = NoTimer]
    ELSE s

\* Faulty variant: the timer id is forgotten without clearTimeout.
stopAutoplay_LeavesTimer(s) ==
    [s EXCEPT !.autoplayTimer = NoTimer, !.autoplayStartTime = NULL]

stopAutoplay(s) ==
    LET s1 == IF s.autoplayTimer # NoTimer
              THEN [clearTimeout(s, s.autoplayTimer) EXCEPT !.autoplayTimer = NoTimer]
              ELSE s
    IN  [s1 EXCEPT !.autoplayStartTime = NULL]

\* Faulty variant: a paused group is started all the same.
startAutoplay_IgnoresPause(s) ==
    IF ~s.autoplayEnabled THEN s
    ELSE LET s1 == stopAutoplay(s)
             remainingTime == (s1.autoplayDuration * MsPerSecond) - s1.autoplayElapsedTime
             id == newTimerId(s1)
             s2 == [s1 EXCEPT !.autoplayStartTime = s1.now]
         IN  [setTimeout(s2, id, remainingTime) EXCEPT !.autoplayTimer = id]

\* Faulty variant: the pending timer is not cancelled before a new one is scheduled.
startAutoplay_NoStop(s) ==
    IF ~s.autoplayEnabled \/ s.isAutoplayPaused THEN s
    ELSE LET remainingTime == (s.autoplayDuration * MsPerSecond) - s.autoplayElapsedTime
             id == newTimerId(s)
             s2 == [s EXCEPT !.autoplayStartTime = s.now]
         IN  [setTimeout(s2, id, remainingTime) EXCEPT !.autoplayTimer = id]

startAutoplay(s) ==
    IF ~s.autoplayEnabled \/ s.isAutoplayPaused THEN s
    ELSE LET s1 == stopAutoplay(s)
             remainingTime == (s1.autoplayDuration * MsPerSecond) - s1.autoplayElapsedTime
             id == newTimerId(s1)
             s2 == [s1 EXCEPT !.autoplayStartTime = s1.now]
         IN  [setTimeout(s2, id, remainingTime) EXCEPT !.autoplayTimer = id]

restartAutoplay(s) ==
    IF ~s.autoplayEnabled THEN s
    ELSE startAutoplay([s EXCEPT !.autoplayElapsedTime = 0])

\* Faulty variant: the label is not switched to 'Play autoplay'.
updateToggleButton_AlwaysPause(s) ==
    IF ~s.toggleButton THEN s
    ELSE [s EXCEPT !.toggleLabel = "Pause autoplay"]

updateToggleButton(s) ==
    IF ~s.toggleButton THEN s
    ELSE [s EXCEPT !.toggleLabel =
              IF s.isAutoplayPaused THEN "Play autoplay" ELSE "Pause autoplay"]

\* Faulty variant: the running segment is not added to the elapsed time.
elapsedAtPause_Lost(s) == s.autoplayElapsedTime

\* Faulty variant: the null check is missing (Date.now() - null is Date.now()).
elapsedAtPause_NoNullCheck(s) ==
    s.autoplayElapsedTime
      + (s.now - (IF s.autoplayStartTime # NULL THEN s.autoplayStartTime ELSE 0))

\* autoplayElapsedTime after `if (autoplayStartTime !== null) autoplayElapsedTime += ...`.
elapsedAtPause(s) ==
    IF s.autoplayStartTime # NULL
    THEN s.autoplayElapsedTime + (s.now - s.autoplayStartTime)
    ELSE s.autoplayElapsedTime

pauseAutoplay(s) ==
    IF ~s.autoplayEnabled THEN s
    ELSE LET s1 == [s EXCEPT !.autoplayElapsedTime = elapsedAtPause(s)]
             s2 == [s1 EXCEPT !.isAutoplayPaused = TRUE, !.pausedClass = TRUE]
         IN  updateToggleButton(stopAutoplay(s2))

\* Faulty variant: a resume starts the cycle afresh.
resumeAutoplay_RestartsCycle(s) ==
    IF ~s.autoplayEnabled THEN s
    ELSE LET s1 == [s EXCEPT !.isAutoplayPaused = FALSE, !.pausedClass = FALSE,
                             !.autoplayElapsedTime = 0]
         IN  updateToggleButton(startAutoplay(s1))

resumeAutoplay(s) ==
    IF ~s.autoplayEnabled THEN s
    ELSE LET s1 == [s EXCEPT !.isAutoplayPaused = FALSE, !.pausedClass = FALSE]
         IN  updateToggleButton(startAutoplay(s1))

\* ------------------------------------------------------------ activation
\* Faulty variant: a negative index passes the range check.
indexInRange_NoLowerBound(s, index) == ~(index >= s.nLinks)

\* The negation of the early-return condition.
indexInRange(s, index) == ~(index < 0 \/ index >= s.nLinks)

\* Faulty variant: links other than the new one keep their selected state.
updateTabLinks_KeepsOthers(s, index) ==
    [s EXCEPT
       !.ariaSelected = [i \in Links(s) |-> s.ariaSelected[i] \/ i = index],
       !.ccActive = [i \in Links(s) |-> s.ccActive[i] \/ i = index],
       !.tabindex = [i \in Links(s) |->
                       IF i \in s.overlays
                       THEN (IF i = index THEN "0" ELSE "-1")
                       ELSE s.tabindex[i]]]

\* Faulty variant: the controls of the other links keep their tabindex.
updateTabLinks_KeepsTabindex(s, index) ==
    [s EXCEPT
       !.ariaSelected = [i \in Links(s) |-> i = index],
       !.ccActive = [i \in Links(s) |-> i = index],
       !.tabindex = [i \in Links(s) |->
                       IF i \in s.overlays /\ i = index THEN "0" ELSE s.tabindex[i]]]

\* The loop over the links: aria-selected, cc-active, tabindex of the control.
updateTabLinks(s, index) ==
    [s EXCEPT
       !.ariaSelected = [i \in Links(s) |-> i = index],
       !.ccActive = [i \in Links(s) |-> i = index],
       !.tabindex = [i \in Links(s) |->
                       IF i \in s.overlays
                       THEN (IF i = index THEN "0" ELSE "-1")
                       ELSE s.tabindex[i]]]

\* The loop over the panes: aria-hidden.
updateTabPanes(s, index) ==
    [s EXCEPT !.ariaHidden = [i \in Panes(s) |-> ~(i = index)]]

\* Faulty variant: a switch while running starts the timer without resetting the cycle.
autoplayAfterSwitch_NoRestart(s) ==
    IF s.autoplayEnabled
    THEN (IF s.isAutoplayPaused
          THEN [s EXCEPT !.autoplayElapsedTime = 0]
          ELSE startAutoplay(s))
    ELSE s

\* Faulty variant: a switch while paused preserves the elapsed time.
autoplayAfterSwitch_KeepsElapsed(s) ==
    IF s.autoplayEnabled
    THEN (IF s.isAutoplayPaused THEN s ELSE restartAutoplay(s))
    ELSE s

\* The tail of setActiveTab: `// Restart autoplay if enabled`.
autoplayAfterSwitch(s) ==
    IF s.autoplayEnabled
    THEN (IF s.isAutoplayPaused
          THEN [s EXCEPT !.autoplayElapsedTime = 0]
          ELSE restartAutoplay(s))
    ELSE s

\* Faulty variant: the data-tab-link-name attribute is not consulted.
displayName_TextOnly(s, i) == s.linkTexts[i]

\* activeTabName || link.textContent: the attribute unless it is absent or
\* empty, else the text of the link.
displayName(s, i) ==
    LET activeTabName == s.linkNames[i]
    IN  IF activeTabName # "null" /\ activeTabName # "" THEN activeTabName
        ELSE s.linkTexts[i]

\* Faulty variant: an open dropdown is left open by the activation.
setActiveTab_KeepsDropdown(s, index) ==
    IF ~indexInRange(s, index) THEN s
    ELSE
      LET s1 == [updateTabPanes(updateTabLinks(s, index), index)
                   EXCEPT !.currentActiveIndex = index]
          s2 == IF s1.dropdownText /\ s1.isMobileDropdown
                THEN [s1 EXCEPT !.textContent = displayName(s1, index)]
                ELSE s1
      IN  autoplayAfterSwitch(s2)

setActiveTab(s, index) ==
    IF ~indexInRange(s, index) THEN s
    ELSE
      LET s1 == [updateTabPanes(updateTabLinks(s, index), index)
                   EXCEPT !.currentActiveIndex = index]
          s2 == IF s1.dropdownText /\ s1.isMobileDropdown
                THEN [s1 EXCEPT !.textContent = displayName(s1, index)]
                ELSE s1
          s3 == IF s2.dropdownToggle /\ s2.menuOpen THEN closeDropdown(s2) ELSE s2
      IN  autoplayAfterSwitch(s3)

\* ------------------------------------------------------------ input router
\* Array.prototype.findIndex over the links: the first index in S, or -1.
findIndex(S) ==
    IF S = {} THEN -1 ELSE CHOOSE i \in S : \A j \in S : i <= j

\* The index of the first link whose id is the fragment `hash`; 0 is the
\* empty fragment, which the handlers skip.
hashMatchIndex(s, hash) ==
    IF hash = 0 THEN -1
    ELSE findIndex({i \in Links(s) : s.linkIds[i] = hash})

\* Faulty variant: a link pre-marked cc-active wins over the fragment.
findInitialActiveIndex_ActiveFirst(s, hash) ==
    LET matchIndex == hashMatchIndex(s, hash)
        customActiveIndex == findIndex({i \in Links(s) : s.ccActive[i]})
    IN  IF customActiveIndex # -1 THEN customActiveIndex
        ELSE IF matchIndex # -1 THEN matchIndex
        ELSE 0

findInitialActiveIndex(s, hash) ==
    LET matchIndex == hashMatchIndex(s, hash)
        customActiveIndex == findIndex({i \in Links(s) : s.ccActive[i]})
    IN  IF matchIndex # -1 THEN matchIndex
        ELSE IF customActiveIndex # -1 THEN customActiveIndex
        ELSE 0

\* Faulty variant: a fragment that matches no tab activates the first tab.
hashChangeHandler_FallsBackToFirst(s, hash) ==
    LET matchIndex == hashMatchIndex(s, hash)
    IN  IF matchIndex # -1 THEN setActiveTab(s, matchIndex) ELSE setActiveTab(s, 0)

hashChangeHandler(s, hash) ==
    LET matchIndex == hashMatchIndex(s, hash)
    IN  IF matchIndex # -1 THEN setActiveTab(s, matchIndex) ELSE s

\* Faulty variant: the arrows do not wrap around at the ends.
keyNewIndex_NoWrap(s, key) ==
    CASE key = "ArrowLeft" -> s.currentActiveIndex - 1
      [] key = "ArrowRight" -> s.currentActiveIndex + 1
      [] key = "Home" -> 0
      [] key = "End" -> s.nLinks - 1
      [] OTHER -> -1

\* Faulty variant: a key without a case activates the first tab.
keyNewIndex_DefaultHome(s, key) ==
    CASE key = "ArrowLeft" ->
            IF s.currentActiveIndex > 0 THEN s.currentActiveIndex - 1 ELSE s.nLinks - 1
      [] key = "ArrowRight" ->
            IF s.currentActiveIndex < s.nLinks - 1 THEN s.currentActiveIndex + 1 ELSE 0
      [] key = "Home" -> 0
      [] key = "End" -> s.nLinks - 1
      [] OTHER -> 0

\* The switch of the keydown handler: the new index, or -1 for `default: return`.
keyNewIndex(s, key) ==
    CASE key = "ArrowLeft" ->
            IF s.currentActiveIndex > 0 THEN s.currentActiveIndex - 1 ELSE s.nLinks - 1
      [] key = "ArrowRight" ->
            IF s.currentActiveIndex < s.nLinks - 1 THEN s.currentActiveIndex + 1 ELSE 0
      [] key = "Home" -> 0
      [] key = "End" -> s.nLinks - 1
      [] OTHER -> -1

\* The cases of the switch call e.preventDefault(); `default: return` does not.
keyPreventsDefault(key) == key \in {"ArrowLeft", "ArrowRight", "Home", "End"}

LinkName(i) == "link" \o ToString(i)

keydownHandler(s, key) ==
    LET newIndex == keyNewIndex(s, key)
    IN  IF newIndex = -1 THEN s
        ELSE LET s1 == setActiveTab(s, newIndex)
             IN  IF newIndex \in s1.overlays
                 THEN [s1 EXCEPT !.focus = LinkName(newIndex)]
                 ELSE s1

clickHandler(s, index) == setActiveTab(s, index)

\* Faulty variant: no wrap-around after the last tab.
nextIndex_NoWrap(s) == s.currentActiveIndex + 1

\* const nextIndex = (currentActiveIndex + 1) % tabLinks.length
nextIndex(s) == (s.currentActiveIndex + 1) % s.nLinks

\* The callback of the autoplay timer.
autoplayCallback(s) == setActiveTab(s, nextIndex(s))

observerCallback(s, isIntersecting) ==
    IF isIntersecting THEN resumeAutoplay(s) ELSE pauseAutoplay(s)

autoplayToggleHandler(s) ==
    IF s.isAutoplayPaused THEN resumeAutoplay(s) ELSE pauseAutoplay(s)

\* Faulty variant: the containment check is missing.
outsideClickHandler_AnyClick(s, inside) == closeDropdown(s)

outsideClickHandler(s, inside) ==
    IF ~inside THEN closeDropdown(s) ELSE s

escapeHandler(s) ==
    IF s.menuOpen THEN [closeDropdown(s) EXCEPT !.focus = "toggle"] ELSE s

\* A keydown on a tab control: the listener of the control runs, then the
\* event bubbles to the keydown listener of the document, if the group has
\* registered one; that listener acts on Escape only.
keydownDispatch(s, key) ==
    LET s1 == keydownHandler(s, key)
    IN  IF "document.keydown" \in s1.listeners /\ key = "Escape"
        THEN escapeHandler(s1)
        ELSE s1

\* ------------------------------------------------------------ mount
\* element.addEventListener(type, handler), the listener known by its name.
addEventListener(s, name) == [s EXCEPT !.listeners = @ \cup {name}]

ClickName(i) == "click" \o ToString(i)
KeydownName(i) == "keydown" \o ToString(i)

setupMobileDropdown(s) ==
    IF ~s.isMobileDropdown \/ ~s.dropdownToggle THEN s
    ELSE LET sel == findIndex({i \in Links(s) : s.ariaSelected[i]})
             act == findIndex({i \in Links(s) : s.ccActive[i]})
             activeLink == IF sel # -1 THEN sel ELSE IF act # -1 THEN act ELSE 0
             s1 == [s EXCEPT !.ariaExpanded = "false"]
             s2 == IF s1.dropdownText
                   THEN [s1 EXCEPT !.textContent = displayName(s1, activeLink)]
                   ELSE s1
         IN  [s2 EXCEPT !.listeners = @ \cup {"dropdownToggle.click",
                                              "document.click", "document.keydown"}]

setupAutoplayObserver(s) ==
    IF ~s.autoplayEnabled THEN s ELSE [s EXCEPT !.observing = TRUE]

\* Faulty variant: the listeners are added without looking at the flag.
setupAutoplayHoverPause_IgnoresFlag(s) ==
    IF ~s.autoplayEnabled THEN s
    ELSE addEventListener(addEventListener(s, "mouseenter"), "mouseleave")

setupAutoplayHoverPause(s) ==
    IF ~s.autoplayEnabled \/ ~s.autoplayHoverPause THEN s
    ELSE addEventListener(addEventListener(s, "mouseenter"), "mouseleave")

setupAutoplayToggle(s) ==
    IF ~s.autoplayEnabled THEN s
    ELSE IF ~s.toggleButton THEN s
    ELSE addEventListener(s, "autoplayToggle.click")

\* One click listener per link that holds a [data-tabs-link-button] control.
setupClickHandlers(s) ==
    [s EXCEPT !.listeners = @ \cup {ClickName(i) : i \in s.overlays}]

setupKeyboardNav(s) ==
    [s EXCEPT !.listeners = @ \cup {KeydownName(i) : i \in s.overlays}]

\* init(): the markup `s` and the URL fragment `hash` at page-ready time.
init(s, hash) ==
    LET s1 == setupMobileDropdown(s)
        s2 == setupAutoplayToggle(setupAutoplayHoverPause(setupAutoplayObserver(s1)))
        s3 == setActiveTab(s2, findInitialActiveIndex(s2, hash))
        s4 == setupKeyboardNav(setupClickHandlers(s3))
        s5 == IF s4.autoplayEnabled THEN startAutoplay(s4) ELSE s4
    IN  addEventListener(s5, "hashchange")

\* Faulty variant: a root without panes passes the check.
hasRequiredElements_IgnoresPanes(s) ==
    s.tabMenu /\ s.dropdownMenu /\ s.tabMenuWrapper /\ s.nLinks # 0

\* The negation of the early-return condition of initTabsComponent.
hasRequiredElements(s) ==
    ~(~s.tabMenu \/ ~s.dropdownMenu \/ ~s.tabMenuWrapper
      \/ s.nLinks = 0 \/ s.nPanes = 0)

initTabsComponent(s, hash) ==
    IF ~hasRequiredElements(s) THEN s ELSE init(s, hash)

\* ------------------------------------------- resize and cleanup (part_000)
\* The resize listener: the pending debounce timer is replaced by a new one.
\* Faulty variant: the pending debounce timer is not cancelled.
resizeHandler_NoClear(s) ==
    LET id == newTimerId(s)
    IN  [s EXCEPT !.resizeTimers = @ \cup {[id |-> id,
                                            fireAt |-> s.now + ResizeDebounce,
                                            delay |-> ResizeDebounce]},
                  !.resizeTimer = id]

resizeHandler(s) ==
    LET s1 == clearTimeout(s, s.resizeTimer)
        id == newTimerId(s1)
    IN  [s1 EXCEPT !.resizeTimers = @ \cup {[id |-> id,
                                             fireAt |-> s1.now + ResizeDebounce,
                                             delay |-> ResizeDebounce]},
                   !.resizeTimer = id]

\* The callback of the debounce timer.
resizeCallback(s) == [s EXCEPT !.cachedWindowWidth = s.innerWidth]

setupResizeHandler(s) == addEventListener(s, "resize")

\* init() of the data-attribute variant: the same steps, the resize handler
\* after the keyboard handlers, and every listener added is also pushed on
\* eventListeners.
init_part000(s, hash) ==
    LET s1 == setupMobileDropdown(s)
        s2 == setupAutoplayToggle(setupAutoplayHoverPause(setupAutoplayObserver(s1)))
        s3 == setActiveTab(s2, findInitialActiveIndex(s2, hash))
        s4 == setupResizeHandler(setupKeyboardNav(setupClickHandlers(s3)))
        s5 == IF s4.autoplayEnabled THEN startAutoplay(s4) ELSE s4
        s6 == addEventListener(s5, "hashchange")
    IN  [s6 EXCEPT !.eventListeners = s6.listeners]

initTabsComponent_part000(s, hash) ==
    IF ~hasRequiredElements(s) THEN s
    ELSE [init_part000(s, hash) EXCEPT !.cachedWindowWidth = s.innerWidth]

\* Faulty variant: the autoplay timer is left pending.
cleanupTimers_KeepsAutoplay(s) == clearTimeout(s, s.resizeTimer)

\* The tail of cleanup: `// Clear timers`.
cleanupTimers(s) ==
    LET s1 == stopAutoplay(s)
    IN  clearTimeout(s1, s1.resizeTimer)

cleanup(s) ==
    LET s1 == [s EXCEPT !.listeners = @ \ s.eventListeners]
        s2 == IF s1.observing THEN [s1 EXCEPT !.observing = FALSE] ELSE s1
    IN  cleanupTimers(s2)

\* ------------------------------------------------------------ theme toggle
\* The state of the two theme scripts as one record.
Th ==
    [scripts |-> scripts, checkboxes |-> checkboxes, classList |-> classList,
     localStorage |-> localStorage, prefersDark |-> prefersDark,
     isLight |-> isLight, savedTheme |-> savedTheme, savedMode |-> savedMode,
     themeListeners |-> themeListeners]

ThemeHolds(r) ==
    /\ scripts = r.scripts /\ checkboxes = r.checkboxes
    /\ classList = r.classList /\ localStorage = r.localStorage
    /\ prefersDark = r.prefersDark /\ isLight = r.isLight
    /\ savedTheme = r.savedTheme /\ savedMode = r.savedMode
    /\ themeListeners = r.themeListeners

ThemeBecomes(r) ==
    /\ scripts' = r.scripts /\ checkboxes' = r.checkboxes
    /\ classList' = r.classList /\ localStorage' = r.localStorage
    /\ prefersDark' = r.prefersDark /\ isLight' = r.isLight
    /\ savedTheme' = r.savedTheme /\ savedMode' = r.savedMode
    /\ themeListeners' = r.themeListeners

\* docEl.classList.toggle(name, force)
classListToggle(t, name, force) ==
    [t EXCEPT !.classList = IF force THEN @ \cup {name} ELSE @ \ {name}]

\* The light/dark script (src/theme-toggle.js, first function).
applyMode(t, light) ==
    classListToggle(classListToggle(t, "u-mode-light", light), "u-mode-dark", ~light)

syncAllToggles(t, light) ==
    [t EXCEPT !.checkboxes = [i \in DOMAIN t.checkboxes |-> light]]

\* The script body at load: early exit, initial mode, DOMContentLoaded listener.
themeScript(t) ==
    LET saved == t.localStorage.savedTheme
        t1 == [t EXCEPT !.savedTheme = saved]
    IN  IF saved \in {"null", ""} /\ Len(t.checkboxes) = 0 THEN t1
        ELSE LET light == IF saved # "null" THEN saved = "light" ELSE ~t.prefersDark
                 t2 == applyMode([t1 EXCEPT !.isLight = light], light)
             IN  [t2 EXCEPT !.themeListeners = @ \cup {"theme.DOMContentLoaded"}]

themeReady(t) ==
    LET t1 == syncAllToggles(t, t.isLight)
        t2 == [t1 EXCEPT !.themeListeners = @ \cup {"theme.change"}]
    IN  IF t2.savedTheme = "null"
        THEN [t2 EXCEPT !.themeListeners = @ \cup {"theme.os"}]
        ELSE t2

\* The change listener of checkbox i.
themeChange(t, i) ==
    LET light == t.checkboxes[i]
        t1 == applyMode([t EXCEPT !.isLight = light], light)
        t2 == [t1 EXCEPT !.localStorage.savedTheme = IF light THEN "light" ELSE "dark"]
    IN  syncAllToggles(t2, light)

\* The change listener of the media query; matches is e.matches.
themeOsChange(t, matches) ==
    LET light == ~matches
    IN  syncAllToggles(applyMode([t EXCEPT !.isLight = light], light), light)

\* The invert script (src/theme-toggle.js, second function; part_001).
\* Faulty variant: the class of the other mode is not removed.
applyModeClasses_NoRemove(t, shouldInvert) ==
    [t EXCEPT !.classList = @ \cup {IF shouldInvert THEN "u-mode-invert"
                                     ELSE "u-mode-base"}]

applyModeClasses(t, shouldInvert) ==
    classListToggle(classListToggle(t, "u-mode-invert", shouldInvert),
                    "u-mode-base", ~shouldInvert)

\* INVERT_MODE === "light" ? !prefersDark : prefersDark
invertFor(dark) == IF INVERT_MODE = "light" THEN ~dark ELSE dark

invertScript(t) ==
    LET saved == t.localStorage.invertMode
        shouldInvert == IF saved # "null" THEN saved = "true"
                        ELSE invertFor(t.prefersDark)
        t1 == applyModeClasses([t EXCEPT !.savedMode = saved], shouldInvert)
    IN  [t1 EXCEPT !.themeListeners = @ \cup {"invert.DOMContentLoaded"}]

invertReady(t) ==
    LET t1 == [t EXCEPT !.checkboxes =
                  [i \in DOMAIN t.checkboxes |-> "u-mode-invert" \in t.classList]]
        t2 == [t1 EXCEPT !.themeListeners = @ \cup {"invert.change"}]
    IN  IF t2.savedMode = "null"
        THEN [t2 EXCEPT !.themeListeners = @ \cup {"invert.os"}]
        ELSE t2

invertChange(t, i) ==
    LET shouldInvert == t.checkboxes[i]
        t1 == applyModeClasses(t, shouldInvert)
        t2 == [t1 EXCEPT !.localStorage.invertMode =
                  IF shouldInvert THEN "true" ELSE "false"]
    IN  [t2 EXCEPT !.checkboxes =
            [j \in DOMAIN t.checkboxes |-> IF j # i THEN shouldInvert ELSE @[j]]]

invertOsChange(t, matches) ==
    LET shouldInvert == invertFor(matches)
        t1 == applyModeClasses(t, shouldInvert)
    IN  [t1 EXCEPT !.checkboxes = [i \in DOMAIN t.checkboxes |-> shouldInvert]]

\* A listener runs only if it is registered.
Dispatch(t, name, result) == IF name \in t.themeListeners THEN result ELSE t

\* A page without the theme scripts.
NoThemeToggle ==
    ThemeHolds([scripts |-> {}, checkboxes |-> <<>>, classList |-> {},
                localStorage |-> [savedTheme |-> "null", invertMode |-> "null"],
                prefersDark |-> FALSE, isLight |-> FALSE, savedTheme |-> "null",
                savedMode |-> "null", themeListeners |-> {}])

\* A page without videos and without sliders.
NoMedia == library = <<>> /\ sliders = <<>>

\* ------------------------------------------------------------ markup
\* The values of data-tabs-autoplay-duration: no attribute, the empty string,
\* a word, zero, a negative number, a positive number.
DurationAttrs == {"absent", "", "abc", "0", "-3", "2"}

\* parseFloat(attr): <<v>> for the number v, <<>> for NaN.
parseFloat(attr) ==
    CASE attr = "2" -> <<2>>
      [] attr = "0" -> <<0>>
      [] attr = "-3" -> <<-3>>
      [] OTHER -> <<>>

\* parseFloat(attr) || 5: NaN and 0 are falsy.
parseDuration(attr) ==
    LET f == parseFloat(attr)
    IN  IF f = <<>> THEN DefaultDuration
        ELSE IF f[1] = 0 THEN DefaultDuration
        ELSE f[1]

\* The ids of the links: all distinct, or (dup) the first two links sharing one.
LinkIds(n, dup) ==
    [i \in 0 .. (n - 1) |-> IF dup /\ i = 0 THEN 2 ELSE i + 1]

Hashes == 0 .. (MaxTabs + 1)

\* data-tab-link-name of the links: a name on the first link, the empty
\* string on the second, no attribute on the others.
LinkNames(n) ==
    [i \in 0 .. (n - 1) |-> IF i = 0 THEN "Name0" ELSE IF i = 1 THEN "" ELSE "null"]

\* The text of the links.
LinkTexts(n) == [i \in 0 .. (n - 1) |-> "Text" \o ToString(i)]

\* A root as authored, before init() has run.
Markup(n, p, ids, mobile, enabled, hover, attr, active) ==
    [tabMenu |-> TRUE, dropdownMenu |-> TRUE, tabMenuWrapper |-> TRUE,
     listeners |-> {}, eventListeners |-> {}, observing |-> FALSE,
     resizeTimer |-> NoTimer,
     cachedWindowWidth |-> DesktopWidth, resizeTimers |-> {},
     innerWidth |-> DesktopWidth,
     nLinks |-> n, nPanes |-> p, overlays |-> 0 .. (n - 1), linkIds |-> ids,
     linkNames |-> LinkNames(n), linkTexts |-> LinkTexts(n),
     isMobileDropdown |-> mobile, dropdownToggle |-> TRUE, dropdownText |-> TRUE,
     toggleButton |-> TRUE, autoplayEnabled |-> enabled,
     autoplayDuration |-> parseDuration(attr), autoplayHoverPause |-> hover,
     ariaSelected |-> [i \in 0 .. (n - 1) |-> FALSE],
     ccActive |-> [i \in 0 .. (n - 1) |-> i \in active],
     tabindex |-> [i \in 0 .. (n - 1) |-> "unset"],
     ariaHidden |-> [i \in 0 .. (p - 1) |-> FALSE],
     textContent |-> "Label", menuOpen |-> FALSE, toggleOpen |-> FALSE,
     ariaExpanded |-> "unset", pausedClass |-> FALSE, toggleLabel |-> "unset",
     focus |-> "body", currentActiveIndex |-> 0, autoplayTimer |-> NoTimer,
     isAutoplayPaused |-> FALSE, autoplayStartTime |-> NULL,
     autoplayElapsedTime |-> 0, timers |-> {}, now |-> 0]

\* The roots the model mounts: autoplay roots with hover-pause (one tab and
\* MaxTabs tabs), an autoplay root with the default duration and no
\* hover-pause, plain roots with a mobile dropdown and any pane count, with and
\* without a duplicated link id, and one root with autoplay and the dropdown
\* together, and a root with the hover-pause flag but without autoplay.
Roots ==
    {[n |-> n, p |-> n, mobile |-> FALSE, enabled |-> TRUE, hover |-> TRUE,
      attr |-> "2", dup |-> FALSE] : n \in {1, MaxTabs}}
    \cup
    {[n |-> 1, p |-> 1, mobile |-> FALSE, enabled |-> TRUE, hover |-> FALSE,
      attr |-> "absent", dup |-> FALSE]}
    \cup
    {[n |-> n, p |-> p, mobile |-> TRUE, enabled |-> FALSE, hover |-> FALSE,
      attr |-> "absent", dup |-> (n = p)] : n \in 1 .. MaxTabs, p \in 1 .. MaxTabs}
    \cup
    {[n |-> 2, p |-> 2, mobile |-> TRUE, enabled |-> TRUE, hover |-> FALSE,
      attr |-> "2", dup |-> FALSE]}
    \cup
    {[n |-> 1, p |-> 1, mobile |-> FALSE, enabled |-> FALSE, hover |-> TRUE,
      attr |-> "absent", dup |-> FALSE]}

\* The markup m with the [data-tabs-link-button] control of the links in
\* `bare` left out.
WithoutControls(m, bare) == [m EXCEPT !.overlays = @ \ bare]

\* The sets of links authored without a control: none, and for the plain group
\* of MaxTabs tabs and panes also its second link.
BareLinks(c) ==
    IF ~c.enabled /\ c.n = MaxTabs /\ c.p = MaxTabs THEN {{}, {1}} ELSE {{}}

Init ==
    /\ \E c \in Roots, hash \in Hashes, first \in BOOLEAN :
          \E bare \in BareLinks(c) :
             Holds(initTabsComponent(
                      WithoutControls(
                         Markup(c.n, c.p, LinkIds(c.n, c.dup), c.mobile, c.enabled,
                                c.hover, c.attr, IF first THEN {} ELSE {c.n - 1}),
                         bare), hash))
    /\ visible = "none"
    /\ hovered = FALSE
    /\ manualOff = FALSE
    /\ runTime = 0
    /\ redundantResume = FALSE
    /\ lastEvent = "mount"
    /\ siblings = <<>>
    /\ mountLog = <<>>
    /\ cleaned = FALSE
    /\ NoThemeToggle
    /\ NoMedia

\* ------------------------------------------------------------ events
\* One action per browser event: the handler the source registers for it,
\* applied to the current state.  What the environment and history variables
\* do is added per specification below.

\* A direct call of setActiveTab, with any integer near the valid range.
SetActiveTabCall(index) ==
    /\ Becomes(setActiveTab(St, index))
    /\ UNCHANGED <<visible, hovered>>

ClickTab(index) ==
    /\ index \in overlays
    /\ ClickName(index) \in listeners
    /\ Becomes(clickHandler(St, index))
    /\ UNCHANGED <<visible, hovered>>

Keydown(k, key) ==
    /\ k \in overlays
    /\ KeydownName(k) \in listeners
    /\ Becomes(keydownDispatch(St, key))
    /\ UNCHANGED <<visible, hovered>>

HashChange(hash) ==
    /\ "hashchange" \in listeners
    /\ Becomes(hashChangeHandler(St, hash))
    /\ UNCHANGED <<visible, hovered>>

\* A pending timer whose deadline has come fires: the browser drops it and
\* runs its callback.
TimerFire ==
    /\ \E t \in timers :
          /\ t.fireAt <= now
          /\ Becomes(autoplayCallback([St EXCEPT !.timers = @ \ {t}]))
    /\ UNCHANGED <<visible, hovered>>

\* The IntersectionObserver (threshold 0.5) reports once after observe() and
\* then at every crossing of the threshold.
Observe(isIntersecting) ==
    /\ observing
    /\ visible # (IF isIntersecting THEN "yes" ELSE "no")
    /\ Becomes(observerCallback(St, isIntersecting))
    /\ visible' = (IF isIntersecting THEN "yes" ELSE "no")
    /\ UNCHANGED hovered

\* The listeners exist only when autoplay and hover-pause are configured.
MouseEnter ==
    /\ ~hovered
    /\ hovered' = TRUE
    /\ Becomes(IF "mouseenter" \in listeners THEN pauseAutoplay(St) ELSE St)
    /\ UNCHANGED visible

MouseLeave ==
    /\ hovered
    /\ hovered' = FALSE
    /\ Becomes(IF "mouseleave" \in listeners THEN resumeAutoplay(St) ELSE St)
    /\ UNCHANGED visible

AutoplayToggleClick ==
    /\ "autoplayToggle.click" \in listeners
    /\ Becomes(autoplayToggleHandler(St))
    /\ UNCHANGED <<visible, hovered>>

DropdownToggleClick ==
    /\ "dropdownToggle.click" \in listeners
    /\ Becomes(toggleDropdown(St))
    /\ UNCHANGED <<visible, hovered>>

\* A document click that reaches the outside-click listener.
DocumentClick(inside) ==
    /\ "document.click" \in listeners
    /\ Becomes(outsideClickHandler(St, inside))
    /\ UNCHANGED <<visible, hovered>>

EscapeKey ==
    /\ "document.keydown" \in listeners
    /\ Becomes(escapeHandler(St))
    /\ UNCHANGED <<visible, hovered>>

\* The clock advances by d seconds, never past the deadline of a pending timer.
Advance(d) ==
    /\ now + d * MsPerSecond <= MaxTime * MsPerSecond
    /\ \A t \in timers \cup resizeTimers : now + d * MsPerSecond <= t.fireAt
    /\ Becomes([St EXCEPT !.now = @ + d * MsPerSecond])
    /\ UNCHANGED <<visible, hovered>>

ValidIndex(index) == 0 <= index /\ index < nLinks

\* ---------------------------------------------------------- specifications
\* What the specifications of a single mounted group leave alone: the other
\* roots of the page, the record of the mount, the cleanup flag and the theme
\* scripts.
Page == <<siblings, mountLog, cleaned, scripts, checkboxes, classList,
          localStorage, prefersDark, isLight, savedTheme, savedMode,
          themeListeners, library, sliders>>

\* Spec: every event, with the event handled last recorded in lastEvent.
Logged(e) ==
    /\ lastEvent' = e
    /\ UNCHANGED <<manualOff, runTime, redundantResume>>
    /\ UNCHANGED Page

Next ==
    \/ \E index \in -1 .. MaxTabs :
          SetActiveTabCall(index)
          /\ Logged(IF ValidIndex(index) THEN "setActiveTab" ELSE "setActiveTabInvalid")
    \/ \E index \in 0 .. (MaxTabs - 1) : ClickTab(index) /\ Logged("click")
    \/ \E k \in 0 .. (MaxTabs - 1), key \in TabKeys :
          Keydown(k, key) /\ Logged(IF key = "Escape" THEN "EscapeOnTab" ELSE key)
    \/ \E hash \in Hashes :
          HashChange(hash)
          /\ Logged(IF hashMatchIndex(St, hash) # -1 THEN "hashchange"
                     ELSE "hashchangeIgnored")
    \/ TimerFire /\ Logged("timer")
    \/ \E isIntersecting \in BOOLEAN : Observe(isIntersecting) /\ Logged("observe")
    \/ MouseEnter /\ Logged("mouseenter")
    \/ MouseLeave /\ Logged("mouseleave")
    \/ AutoplayToggleClick /\ Logged("toggle")
    \/ DropdownToggleClick /\ Logged("dropdownToggle")
    \/ \E inside \in BOOLEAN : DocumentClick(inside) /\ Logged("documentClick")
    \/ EscapeKey /\ Logged("Escape")
    \/ \E d \in 1 .. MaxAdvance : Advance(d) /\ Logged("advance")

Spec == Init /\ [][Next]_vars

\* SpecAutoplay: the same events, with the running time on the active tab and
\* the manual pause source tracked instead of the last event.
Running == autoplayEnabled /\ ~isAutoplayPaused

\* A valid activation starts the dwell on the (new) active tab afresh.
Activated ==
    /\ runTime' = 0
    /\ redundantResume' = FALSE
    /\ UNCHANGED <<manualOff, lastEvent>>
    /\ UNCHANGED Page

\* A resume handler ran: it is redundant when autoplay was already running.
Resumed ==
    /\ redundantResume' = (redundantResume \/ Running)
    /\ UNCHANGED <<runTime, manualOff, lastEvent>>
    /\ UNCHANGED Page

Kept == UNCHANGED <<runTime, redundantResume, manualOff, lastEvent>> /\ UNCHANGED Page

NextAutoplay ==
    \/ \E index \in -1 .. MaxTabs :
          SetActiveTabCall(index) /\ (IF ValidIndex(index) THEN Activated ELSE Kept)
    \/ \E index \in 0 .. (MaxTabs - 1) : ClickTab(index) /\ Activated
    \/ \E k \in 0 .. (MaxTabs - 1), key \in TabKeys :
          Keydown(k, key) /\ (IF keyPreventsDefault(key) THEN Activated ELSE Kept)
    \/ \E hash \in Hashes :
          HashChange(hash) /\ (IF hashMatchIndex(St, hash) # -1 THEN Activated ELSE Kept)
    \/ TimerFire /\ Activated
    \/ \E isIntersecting \in BOOLEAN :
          Observe(isIntersecting) /\ (IF isIntersecting THEN Resumed ELSE Kept)
    \/ MouseEnter /\ Kept
    \/ MouseLeave /\ (IF "mouseleave" \in listeners THEN Resumed ELSE Kept)
    \/ /\ AutoplayToggleClick
       /\ manualOff' = ~isAutoplayPaused
       /\ UNCHANGED <<runTime, redundantResume, lastEvent>>
       /\ UNCHANGED Page
    \/ DropdownToggleClick /\ Kept
    \/ \E inside \in BOOLEAN : DocumentClick(inside) /\ Kept
    \/ EscapeKey /\ Kept
    \/ \E d \in 1 .. MaxAdvance :
          /\ Advance(d)
          /\ runTime' = (IF Running THEN runTime + d * MsPerSecond ELSE runTime)
          /\ UNCHANGED <<redundantResume, manualOff, lastEvent>>
          /\ UNCHANGED Page

SpecAutoplay == Init /\ [][NextAutoplay]_vars

\* SpecCleanup: the data-attribute variant of the group with its resize
\* handler and its cleanup function; `cleaned` records that cleanup ran.
RootsCleanup ==
    {[n |-> 2, p |-> 2, mobile |-> TRUE, enabled |-> TRUE, hover |-> TRUE,
      attr |-> "2", dup |-> FALSE]}

InitCleanup ==
    /\ \E c \in RootsCleanup, hash \in {0, 2} :
          Holds(initTabsComponent_part000(
                    Markup(c.n, c.p, LinkIds(c.n, c.dup), c.mobile, c.enabled,
                           c.hover, c.attr, {}), hash))
    /\ visible = "none"
    /\ hovered = FALSE
    /\ manualOff = FALSE
    /\ runTime = 0
    /\ redundantResume = FALSE
    /\ lastEvent = "mount"
    /\ siblings = <<>>
    /\ mountLog = <<>>
    /\ cleaned = FALSE
    /\ NoThemeToggle
    /\ NoMedia

\* The window is resized to `width`; the resize listener runs if registered.
Resize(width) ==
    /\ width # innerWidth
    /\ Becomes(IF "resize" \in listeners
               THEN resizeHandler([St EXCEPT !.innerWidth = width])
               ELSE [St EXCEPT !.innerWidth = width])
    /\ UNCHANGED <<visible, hovered>>

\* A debounce timer whose deadline has come fires.
ResizeTimerFire ==
    /\ \E t \in resizeTimers :
          /\ t.fireAt <= now
          /\ Becomes(resizeCallback([St EXCEPT !.resizeTimers = @ \ {t}]))
    /\ UNCHANGED <<visible, hovered>>

\* The clock advances to the earliest deadline of a pending timer.
AdvanceToDeadline ==
    /\ \E t \in timers \cup resizeTimers :
          /\ t.fireAt > now
          /\ t.fireAt <= MaxCleanupTime * MsPerSecond
          /\ \A u \in timers \cup resizeTimers : t.fireAt <= u.fireAt
          /\ Becomes([St EXCEPT !.now = t.fireAt])
    /\ UNCHANGED <<visible, hovered>>

\* The clock advances from between two seconds to the next whole second.
AdvanceToSecond ==
    /\ now % MsPerSecond # 0
    /\ LET next == ((now \div MsPerSecond) + 1) * MsPerSecond
       IN  /\ next <= MaxCleanupTime * MsPerSecond
           /\ \A t \in timers \cup resizeTimers : next <= t.fireAt
           /\ Becomes([St EXCEPT !.now = next])
    /\ UNCHANGED <<visible, hovered>>

\* component.__tabsCleanup()
Cleanup ==
    /\ Becomes(cleanup(St))
    /\ UNCHANGED <<visible, hovered>>

\* An event other than the cleanup call.
Uncleaned ==
    UNCHANGED <<manualOff, runTime, redundantResume, lastEvent>> /\ UNCHANGED Page

\* User and browser events arrive on whole seconds of the clock; timers fire
\* and cleanup is called at any time.
OnSecond == now % MsPerSecond = 0 /\ Uncleaned

NextCleanup ==
    \/ /\ Cleanup
       /\ cleaned' = TRUE
       /\ UNCHANGED <<manualOff, runTime, redundantResume, lastEvent,
                      siblings, mountLog>>
       /\ UNCHANGED <<scripts, checkboxes, classList, localStorage, prefersDark,
                      isLight, savedTheme, savedMode, themeListeners, library, sliders>>
    \/ \E index \in 0 .. (MaxTabs - 1) : ClickTab(index) /\ OnSecond
    \/ \E k \in 0 .. (MaxTabs - 1), key \in TabKeys : Keydown(k, key) /\ OnSecond
    \/ \E hash \in Hashes : HashChange(hash) /\ OnSecond
    \/ TimerFire /\ Uncleaned
    \/ \E isIntersecting \in BOOLEAN : Observe(isIntersecting) /\ OnSecond
    \/ MouseEnter /\ OnSecond
    \/ MouseLeave /\ OnSecond
    \/ AutoplayToggleClick /\ OnSecond
    \/ DropdownToggleClick /\ OnSecond
    \/ \E inside \in BOOLEAN : DocumentClick(inside) /\ OnSecond
    \/ EscapeKey /\ OnSecond
    \/ \E width \in {MobileWidth, DesktopWidth} : Resize(width) /\ OnSecond
    \/ ResizeTimerFire /\ Uncleaned
    \/ \E d \in 1 .. MaxAdvance :
          Advance(d) /\ now + d * MsPerSecond <= MaxCleanupTime * MsPerSecond /\ OnSecond
    \/ AdvanceToDeadline /\ Uncleaned
    \/ AdvanceToSecond /\ Uncleaned

SpecCleanup == InitCleanup /\ [][NextCleanup]_vars

\* SpecMount: the page as loaded, and the one step in which initAllTabs runs
\* initTabsComponent on every root in document order.  The fragment and the
\* links marked cc-active at that moment are recorded in mountLog.
Pieces == {"tabMenu", "dropdownMenu", "tabMenuWrapper", "links", "panes"}

\* The markup of root c with the links in `active` marked cc-active and the
\* piece `missing` (or "none") left out.
Unmounted(c, active, missing) ==
    LET n == IF missing = "links" THEN 0 ELSE c.n
        p == IF missing = "panes" THEN 0 ELSE c.p
        m == Markup(n, p, LinkIds(n, c.dup), c.mobile, c.enabled, c.hover,
                    c.attr, active \cap (0 .. (n - 1)))
    IN  [m EXCEPT !.tabMenu = (missing # "tabMenu"),
                  !.dropdownMenu = (missing # "dropdownMenu"),
                  !.tabMenuWrapper = (missing # "tabMenuWrapper")]

\* The root that may follow on the same page: an autoplay group of two tabs,
\* complete or without its panes.
SiblingRoot ==
    [n |-> 2, p |-> 2, mobile |-> TRUE, enabled |-> TRUE, hover |-> FALSE,
     attr |-> "2", dup |-> FALSE]

InitMount ==
    /\ \E c \in Roots, active \in SUBSET (0 .. (MaxTabs - 1)),
          missing \in Pieces \cup {"none"}, attr \in DurationAttrs :
          /\ active \subseteq 0 .. (c.n - 1)
          /\ c.enabled \/ attr = c.attr
          /\ Holds(Unmounted([c EXCEPT !.attr = attr], active, missing))
    /\ siblings \in {<<>>, <<Unmounted(SiblingRoot, {1}, "none")>>,
                     <<Unmounted(SiblingRoot, {1}, "panes")>>}
    /\ mountLog = <<>>
    /\ cleaned = FALSE
    /\ NoThemeToggle
    /\ NoMedia
    /\ visible = "none"
    /\ hovered = FALSE
    /\ manualOff = FALSE
    /\ runTime = 0
    /\ redundantResume = FALSE
    /\ lastEvent = "load"

\* DOMContentLoaded (or the script running after it): components.forEach(
\* initTabsComponent) with the fragment `hash` in the URL.
initAllTabs(hash) ==
    /\ mountLog = <<>>
    /\ Becomes(initTabsComponent(St, hash))
    /\ siblings' = [i \in DOMAIN siblings |-> initTabsComponent(siblings[i], hash)]
    /\ mountLog' = <<[hash |-> hash, active |-> {i \in 0 .. (nLinks - 1) : ccActive[i]}]>>
    /\ lastEvent' = "mount"
    /\ UNCHANGED <<visible, hovered, manualOff, runTime, redundantResume, cleaned>>
    /\ UNCHANGED <<scripts, checkboxes, classList, localStorage, prefersDark,
                   isLight, savedTheme, savedMode, themeListeners, library, sliders>>

NextMount == \E hash \in Hashes : initAllTabs(hash)

SpecMount == InitMount /\ [][NextMount]_vars

\* SpecResize: a plain group of the data-attribute variant while the window
\* is resized.  The clock advances in ticks of a third of the debounce delay;
\* the window is resized at any tick of the first MaxBurstTicks, to any of
\* three widths.  The browser keeps its clock running and runs a timer that
\* is due: both steps are weakly fair.
Tick == ResizeDebounce \div 3

InitResize ==
    /\ Holds(initTabsComponent_part000(
                 Markup(MaxTabs, MaxTabs, LinkIds(MaxTabs, FALSE), FALSE, FALSE,
                        FALSE, "absent", {}), 0))
    /\ visible = "none"
    /\ hovered = FALSE
    /\ manualOff = FALSE
    /\ runTime = 0
    /\ redundantResume = FALSE
    /\ lastEvent = "mount"
    /\ siblings = <<>>
    /\ mountLog = <<>>
    /\ cleaned = FALSE
    /\ NoThemeToggle
    /\ NoMedia

ResizeInBurst(width) ==
    /\ now < MaxBurstTicks * Tick
    /\ Resize(width)
    /\ Uncleaned

\* The clock advances by one tick, never past the deadline of a pending timer.
ClockTick ==
    /\ now < MaxBurstTicks * Tick \/ resizeTimers # {}
    /\ \A t \in resizeTimers : now + Tick <= t.fireAt
    /\ Becomes([St EXCEPT !.now = @ + Tick])
    /\ UNCHANGED <<visible, hovered>>
    /\ Uncleaned

DebounceFire == ResizeTimerFire /\ Uncleaned

NextResize ==
    \/ \E width \in {MobileWidth, TabletWidth, DesktopWidth} : ResizeInBurst(width)
    \/ \E index \in 0 .. (MaxTabs - 1) : ClickTab(index) /\ Uncleaned
    \/ DebounceFire
    \/ ClockTick

SpecResize ==
    InitResize /\ [][NextResize]_vars /\ WF_vars(DebounceFire) /\ WF_vars(ClockTick)

\* SpecCycle: an autoplay group of MaxTabs tabs left to run for ever.  The
\* handlers read the clock only in differences (Date.now() - autoplayStartTime
\* and setTimeout delays), so the clock is kept relative to the start of the
\* running segment, or at 0 while nothing runs; this keeps an unbounded run
\* in finitely many states.  The browser keeps its clock running and runs a
\* timer that is due: both steps are weakly fair.  The user's events are not.
Rebase(s) ==
    LET base == IF s.autoplayStartTime # NULL THEN s.autoplayStartTime ELSE s.now
    IN  [s EXCEPT !.now = @ - base,
                  !.autoplayStartTime = IF @ # NULL THEN @ - base ELSE @,
                  !.timers = {[u EXCEPT !.fireAt = @ - base] : u \in @}]

CycleBecomes(r, e) ==
    /\ \E after \in {Rebase(r)} : Becomes(after)
    /\ Logged(e)

InitCycle ==
    /\ Holds(initTabsComponent(
                 Markup(MaxTabs, MaxTabs, LinkIds(MaxTabs, FALSE), FALSE, TRUE,
                        TRUE, "2", {}), 0))
    /\ visible = "none"
    /\ hovered = FALSE
    /\ manualOff = FALSE
    /\ runTime = 0
    /\ redundantResume = FALSE
    /\ lastEvent = "mount"
    /\ siblings = <<>>
    /\ mountLog = <<>>
    /\ cleaned = FALSE
    /\ NoThemeToggle
    /\ NoMedia

CycleTimerFire ==
    /\ \E t \in timers :
          /\ t.fireAt <= now
          /\ CycleBecomes(autoplayCallback([St EXCEPT !.timers = @ \ {t}]), "timer")
    /\ UNCHANGED <<visible, hovered>>

\* One second passes, never past the deadline of a pending timer.
CycleTick ==
    /\ \A t \in timers : now + MsPerSecond <= t.fireAt
    /\ CycleBecomes([St EXCEPT !.now = @ + MsPerSecond], "tick")
    /\ UNCHANGED <<visible, hovered>>

NextCycle ==
    \/ CycleTimerFire
    \/ CycleTick
    \/ \E index \in 0 .. (MaxTabs - 1) :
          /\ ClickName(index) \in listeners
          /\ CycleBecomes(clickHandler(St, index), "click")
          /\ UNCHANGED <<visible, hovered>>
    \/ \E isIntersecting \in BOOLEAN :
          /\ observing
          /\ visible # (IF isIntersecting THEN "yes" ELSE "no")
          /\ CycleBecomes(observerCallback(St, isIntersecting), "observe")
          /\ visible' = (IF isIntersecting THEN "yes" ELSE "no")
          /\ UNCHANGED hovered
    \/ /\ ~hovered /\ "mouseenter" \in listeners
       /\ hovered' = TRUE
       /\ CycleBecomes(pauseAutoplay(St), "mouseenter")
       /\ UNCHANGED visible
    \/ /\ hovered /\ "mouseleave" \in listeners
       /\ hovered' = FALSE
       /\ CycleBecomes(resumeAutoplay(St), "mouseleave")
       /\ UNCHANGED visible
    \/ /\ "autoplayToggle.click" \in listeners
       /\ CycleBecomes(autoplayToggleHandler(St), "toggle")
       /\ UNCHANGED <<visible, hovered>>

\* CycleTimerFire is the only step that logs "timer", it is enabled exactly
\* when a timer is due, and the callback never leaves a due timer behind (the
\* duration is positive): weak fairness of the step logging "timer" while a
\* timer is due is weak fairness of CycleTimerFire.
TimerDue == \E t \in timers : t.fireAt <= now

TimerStep == TimerDue /\ lastEvent' = "timer"

SpecCycle ==
    InitCycle /\ [][NextCycle]_vars /\ WF_lastEvent(TimerStep) /\ WF_vars(CycleTick)

\* SpecPair: two groups A and B mounted on one page, in disjoint subtrees.
\* A is the group of the state variables, B is siblings[1]; each has its own
\* closure variables and DOM attributes.  The page has one clock and one pool
\* of pending timers: `timers` holds the timers of both groups, and a timer
\* belongs to the group whose autoplayTimer is its id.  The record of B also
\* holds what the environment variables visible and hovered hold for A: the
\* latest report of B's observer and whether the pointer is inside B.  The
\* page has one focused element: `focus` of a group names the control of that
\* group that has the focus and is "body" while none of them has it, so a
\* call of focus() in one group takes the focus from the other.
RootA ==
    [n |-> 2, p |-> 2, mobile |-> FALSE, enabled |-> TRUE, hover |-> TRUE,
     attr |-> "2", dup |-> FALSE]

RootB ==
    [n |-> 2, p |-> 2, mobile |-> FALSE, enabled |-> TRUE, hover |-> FALSE,
     attr |-> "2", dup |-> FALSE]

\* Group B as its handlers see it: its own state, the clock and the timer
\* pool of the page.
SiblingView == [siblings[1] EXCEPT !.timers = timers, !.now = now]

\* A handler of group B has run with result r.
SiblingBecomes(r) ==
    /\ siblings' = <<[r EXCEPT !.timers = {}, !.now = 0]>>
    /\ Becomes([St EXCEPT !.timers = r.timers,
                          !.focus = IF r.focus # siblings[1].focus THEN "body" ELSE @])
    /\ UNCHANGED <<visible, hovered>>

InitPair ==
    /\ LET a == initTabsComponent(
                    Markup(RootA.n, RootA.p, LinkIds(RootA.n, RootA.dup), RootA.mobile,
                           RootA.enabled, RootA.hover, RootA.attr, {}), 0)
           b == initTabsComponent(
                    [Markup(RootB.n, RootB.p, LinkIds(RootB.n, RootB.dup), RootB.mobile,
                            RootB.enabled, RootB.hover, RootB.attr, {})
                       EXCEPT !.timers = a.timers], 0)
       IN  /\ Holds([a EXCEPT !.timers = b.timers])
           /\ siblings = <<[visible |-> "none", hovered |-> FALSE]
                             @@ [b EXCEPT !.timers = {}, !.now = 0]>>
    /\ visible = "none"
    /\ hovered = FALSE
    /\ manualOff = FALSE
    /\ runTime = 0
    /\ redundantResume = FALSE
    /\ lastEvent = "mount"
    /\ mountLog = <<>>
    /\ cleaned = FALSE
    /\ NoThemeToggle
    /\ NoMedia

\* The pending timer of group A fires.
TimerFireA ==
    /\ \E t \in timers :
          /\ t.fireAt <= now
          /\ t.id = autoplayTimer
          /\ Becomes(autoplayCallback([St EXCEPT !.timers = @ \ {t}]))
    /\ UNCHANGED <<visible, hovered>>

\* The pending timer of group B fires.
TimerFireB ==
    \E t \in timers :
       /\ t.fireAt <= now
       /\ t.id = siblings[1].autoplayTimer
       /\ SiblingBecomes(autoplayCallback([SiblingView EXCEPT !.timers = @ \ {t}]))

ClickTabB(index) ==
    /\ index \in siblings[1].overlays
    /\ ClickName(index) \in siblings[1].listeners
    /\ SiblingBecomes(clickHandler(SiblingView, index))

\* A keydown on a tab control of group A: every control carries the same
\* listener, which reads currentActiveIndex and not the control it is on.
KeydownA(key) ==
    /\ {k \in overlays : KeydownName(k) \in listeners} # {}
    /\ Becomes(keydownDispatch(St, key))
    /\ UNCHANGED <<visible, hovered>>

\* A keydown on a tab control of group B.
KeydownB(key) ==
    /\ {k \in siblings[1].overlays : KeydownName(k) \in siblings[1].listeners} # {}
    /\ SiblingBecomes(keydownDispatch(SiblingView, key))

\* A report of the IntersectionObserver of group B.
ObserveB(isIntersecting) ==
    /\ siblings[1].observing
    /\ siblings[1].visible # (IF isIntersecting THEN "yes" ELSE "no")
    /\ SiblingBecomes([observerCallback(SiblingView, isIntersecting)
                         EXCEPT !.visible = IF isIntersecting THEN "yes" ELSE "no"])

\* The pointer enters or leaves group B; its listeners exist only when B is
\* configured for hover-pause.
MouseEnterB ==
    /\ ~siblings[1].hovered
    /\ LET b == [SiblingView EXCEPT !.hovered = TRUE]
       IN  SiblingBecomes(IF "mouseenter" \in b.listeners THEN pauseAutoplay(b) ELSE b)

MouseLeaveB ==
    /\ siblings[1].hovered
    /\ LET b == [SiblingView EXCEPT !.hovered = FALSE]
       IN  SiblingBecomes(IF "mouseleave" \in b.listeners THEN resumeAutoplay(b) ELSE b)

AutoplayToggleClickB ==
    /\ "autoplayToggle.click" \in siblings[1].listeners
    /\ SiblingBecomes(autoplayToggleHandler(SiblingView))

\* One hashchange event on window: the listener of every group runs, in the
\* order of registration (A was mounted first), on the same fragment.
HashChangePair(hash) ==
    /\ "hashchange" \in listeners
    /\ "hashchange" \in siblings[1].listeners
    /\ LET a == hashChangeHandler(St, hash)
           b == hashChangeHandler([siblings[1] EXCEPT !.timers = a.timers,
                                                      !.now = now], hash)
       IN  /\ siblings' = <<[b EXCEPT !.timers = {}, !.now = 0]>>
           /\ Becomes([a EXCEPT !.timers = b.timers])
    /\ UNCHANGED <<visible, hovered>>

\* The cycle length of both groups, in ms.
PairCycle == parseDuration(RootA.attr) * MsPerSecond

\* The clock of the page is read at whole cycle lengths after the mount.
AdvancePair(d) ==
    /\ now + d * MsPerSecond <= MaxPairTime * MsPerSecond
    /\ (now + d * MsPerSecond) % PairCycle = 0
    /\ Advance(d)

\* An event of group A, recorded in lastEvent as "A.timer" (its timer fired)
\* or "A.event" (click, keydown, observer report, hover, toggle click); group
\* B's own state is out of the reach of A's handlers, the timer pool is not.
LoggedA(e) ==
    /\ lastEvent' = e
    /\ siblings' = <<[siblings[1] EXCEPT
                        !.focus = IF focus' # focus THEN "body" ELSE @]>>
    /\ UNCHANGED <<manualOff, runTime, redundantResume, mountLog, cleaned>>
    /\ UNCHANGED <<scripts, checkboxes, classList, localStorage, prefersDark,
                   isLight, savedTheme, savedMode, themeListeners, library, sliders>>

\* An event of group B, or one of the window that reaches both groups.
LoggedB(e) ==
    /\ lastEvent' = e
    /\ UNCHANGED <<manualOff, runTime, redundantResume, mountLog, cleaned>>
    /\ UNCHANGED <<scripts, checkboxes, classList, localStorage, prefersDark,
                   isLight, savedTheme, savedMode, themeListeners, library, sliders>>

NextPair ==
    \/ \E index \in 0 .. (MaxTabs - 1) : ClickTab(index) /\ LoggedA("A.event")
    \/ \E key \in TabKeys : KeydownA(key) /\ LoggedA("A.event")
    \/ TimerFireA /\ LoggedA("A.timer")
    \/ \E isIntersecting \in BOOLEAN : Observe(isIntersecting) /\ LoggedA("A.event")
    \/ MouseEnter /\ LoggedA("A.event")
    \/ MouseLeave /\ LoggedA("A.event")
    \/ AutoplayToggleClick /\ LoggedA("A.event")
    \/ \E index \in 0 .. (MaxTabs - 1) : ClickTabB(index) /\ LoggedB("B.event")
    \/ \E key \in TabKeys : KeydownB(key) /\ LoggedB("B.event")
    \/ \E isIntersecting \in BOOLEAN : ObserveB(isIntersecting) /\ LoggedB("B.event")
    \/ MouseEnterB /\ LoggedB("B.event")
    \/ MouseLeaveB /\ LoggedB("B.event")
    \/ AutoplayToggleClickB /\ LoggedB("B.event")
    \/ TimerFireB /\ LoggedB("B.event")
    \/ \E hash \in Hashes : HashChangePair(hash) /\ LoggedB("hashchange")
    \/ \E d \in 1 .. MaxAdvance : AdvancePair(d) /\ LoggedA("advance")

SpecPair == InitPair /\ [][NextPair]_vars

\* SpecTheme: a page with the theme scripts and no tab group.  The page
\* carries src/theme-toggle.js (the light/dark script followed by the invert
\* script) or the invert script alone (src/unnamed/part_001); the scripts
\* have run, in a document that already holds the checkboxes, and
\* DOMContentLoaded is still to come.  The storage is empty or holds what the
\* change listeners of the page's scripts wrote on an earlier visit.
StoredBy(sc) ==
    IF "theme" \in sc
    THEN {[savedTheme |-> "null", invertMode |-> "null"],
          [savedTheme |-> "light", invertMode |-> "true"],
          [savedTheme |-> "dark", invertMode |-> "false"]}
    ELSE {[savedTheme |-> "null", invertMode |-> "null"],
          [savedTheme |-> "null", invertMode |-> "true"],
          [savedTheme |-> "null", invertMode |-> "false"]}

Loaded(sc, n, stored, dark) ==
    LET t0 == [scripts |-> sc, checkboxes |-> [i \in 1 .. n |-> FALSE],
               classList |-> {}, localStorage |-> stored, prefersDark |-> dark,
               isLight |-> FALSE, savedTheme |-> "null", savedMode |-> "null",
               themeListeners |-> {}]
        t1 == IF "theme" \in sc THEN themeScript(t0) ELSE t0
    IN  IF "invert" \in sc THEN invertScript(t1) ELSE t1

InitTheme ==
    /\ \E sc \in {{"theme", "invert"}, {"invert"}}, n \in 0 .. MaxCheckboxes,
          dark \in BOOLEAN :
          \E stored \in StoredBy(sc) : ThemeHolds(Loaded(sc, n, stored, dark))
    /\ Holds(Markup(0, 0, LinkIds(0, FALSE), FALSE, FALSE, FALSE, "absent", {}))
    /\ visible = "none"
    /\ hovered = FALSE
    /\ manualOff = FALSE
    /\ runTime = 0
    /\ redundantResume = FALSE
    /\ siblings = <<>>
    /\ mountLog = <<>>
    /\ cleaned = FALSE
    /\ lastEvent = "load"
    /\ NoMedia

NoTabs ==
    UNCHANGED <<tabMenu, dropdownMenu, tabMenuWrapper, listeners, eventListeners,
                observing, resizeTimer, cachedWindowWidth, resizeTimers,
                innerWidth, nLinks, nPanes, overlays, linkIds, linkNames,
                linkTexts, isMobileDropdown,
                dropdownToggle, dropdownText, toggleButton, autoplayEnabled,
                autoplayDuration, autoplayHoverPause, ariaSelected, ccActive,
                tabindex, ariaHidden, textContent, menuOpen, toggleOpen,
                ariaExpanded, pausedClass, toggleLabel, focus,
                currentActiveIndex, autoplayTimer, isAutoplayPaused,
                autoplayStartTime, autoplayElapsedTime, timers, now, visible,
                hovered, manualOff, runTime, redundantResume, siblings,
                mountLog, cleaned>>

\* The theme scripts touch neither the videos nor the sliders.
NoMediaChange == UNCHANGED <<library, sliders>>

\* DOMContentLoaded: the listeners of the two scripts in registration order.
DOMContentLoaded ==
    /\ lastEvent = "load"
    /\ LET t1 == Dispatch(Th, "theme.DOMContentLoaded", themeReady(Th))
           t2 == Dispatch(t1, "invert.DOMContentLoaded", invertReady(t1))
       IN  ThemeBecomes(t2)
    /\ lastEvent' = "ready"
    /\ NoTabs /\ NoMediaChange

\* The user flips checkbox i: the browser updates `checked` and dispatches
\* change to the listeners of that checkbox.
CheckboxChange(i) ==
    /\ lastEvent # "load"
    /\ i \in DOMAIN checkboxes
    /\ LET t0 == [Th EXCEPT !.checkboxes[i] = ~@]
           t1 == Dispatch(t0, "theme.change", themeChange(t0, i))
           t2 == Dispatch(t1, "invert.change", invertChange(t1, i))
       IN  ThemeBecomes(t2)
    /\ lastEvent' = "change"
    /\ NoTabs /\ NoMediaChange

\* The OS colour scheme changes: change is dispatched to the media query.
ColorSchemeChange ==
    /\ lastEvent # "load"
    /\ LET t0 == [Th EXCEPT !.prefersDark = ~@]
           t1 == Dispatch(t0, "theme.os", themeOsChange(t0, t0.prefersDark))
           t2 == Dispatch(t1, "invert.os", invertOsChange(t1, t1.prefersDark))
       IN  ThemeBecomes(t2)
    /\ lastEvent' = (IF themeListeners \cap {"theme.os", "invert.os"} # {}
                     THEN "osChange" ELSE "osChangeIgnored")
    /\ NoTabs /\ NoMediaChange

NextTheme ==
    \/ DOMContentLoaded
    \/ \E i \in 1 .. MaxCheckboxes : CheckboxChange(i)
    \/ ColorSchemeChange

SpecTheme == InitTheme /\ [][NextTheme]_vars

\* ------------------------------------------------------- video library
\* src/inline-video.js, class VideoLibrary, on a page with one video.  The
\* record v holds the library object, the video element and what the page
\* shows of it:
\*   reduced, hover, scrollIn, desktopOnly, button   the configuration
\*   small          window.innerWidth <= 991
\*   display        video.style.display
\*   picture        the poster picture is shown
\*   src, ready     source.src is set; canplaythrough has been dispatched
\*   waiting        the continuation of the lazyLoadVideo promise that waits
\*                  for canplaythrough ("none": no promise pending)
\*   paused         video.paused
\*   queued         the play and pause events the element has queued and not
\*                  yet fired (play() and pause() queue a task that fires
\*                  the event; the listeners run in that later task)
\*   microtasks     the continuations of resolved promises that wait for the
\*                  running script to end
\*   playBy         who made the last call of video.play()
\*   label          aria-label of the playback button
\*   pointer        the pointer is over the trigger element
\*   videoObserver, watching, scrollObserver   the IntersectionObservers
\*   domListeners   number of listeners registered per event type
\*   registry       this.eventListeners: the kind of collection and the
\*                  types recorded for the video
\*   resizeHandler, resizeTimeout
\*   error          the exception the last call of destroy or reinitialize
\*                  raised
ListenerTypes ==
    {"click", "play", "pause", "mouseenter", "mouseleave", "resize", "canplaythrough"}

hidePictureElement(v) == [v EXCEPT !.picture = FALSE]

showPictureElement(v) == [v EXCEPT !.picture = TRUE]

\* toggleButtonState(isPlaying), through the play and pause events or directly.
toggleButtonState(v, isPlaying) ==
    [v EXCEPT !.label = IF isPlaying THEN "Pause video" ELSE "Play video"]

\* video.play(): paused becomes false at once; if the video was paused the
\* element queues the play event.
videoPlay(v, cause) ==
    [v EXCEPT !.paused = FALSE, !.playBy = cause,
              !.queued = IF v.paused THEN Append(@, "play") ELSE @]

\* video.pause(): paused becomes true at once; if the video was playing the
\* element queues the pause event.
videoPause(v) ==
    [v EXCEPT !.paused = TRUE,
              !.queued = IF ~v.paused THEN Append(@, "pause") ELSE @]

\* The element fires the event it queued first: playHandler or pauseHandler
\* runs once per registration.
fireQueued(v) ==
    LET type == Head(v.queued)
        v1 == [v EXCEPT !.queued = Tail(@)]
    IN  IF v.domListeners[type] > 0 THEN toggleButtonState(v1, type = "play")
        ELSE v1

\* What runs when the promise of lazyLoadVideo resolves, by caller.
then(v, cont) ==
    CASE cont = "unobserve" -> [v EXCEPT !.watching = FALSE]
      [] cont = "hover" -> videoPlay(v, "hover")
      [] cont = "scroll" ->
            IF ~v.reduced THEN videoPlay(hidePictureElement(v), "scroll") ELSE v
      [] cont = "scrollHover" -> showPictureElement(videoPause(v))
      [] cont = "click" ->
            toggleButtonState(videoPlay(hidePictureElement(v), "click"), TRUE)
      [] cont = "api" ->
            IF ~v.reduced THEN videoPlay(hidePictureElement(v), "api") ELSE v
      [] OTHER -> v

\* lazyLoadVideo(video).then(cont): with no src yet the load starts and the
\* promise waits for canplaythrough; otherwise it resolves at once.
lazyLoadVideo(v, cont) ==
    IF ~v.src THEN [v EXCEPT !.src = TRUE, !.waiting = cont]
    ELSE then(v, cont)

addListeners(v, types) ==
    [v EXCEPT !.domListeners = [ty \in ListenerTypes |->
                                  IF ty \in types THEN @[ty] + 1 ELSE @[ty]]]

removeDesktopOnlyVideos(v) ==
    IF ~v.desktopOnly THEN v
    ELSE IF v.small
         THEN showPictureElement([v EXCEPT !.display = "none"])
         ELSE hidePictureElement([v EXCEPT !.display = ""])

setupLazyLoading(v) ==
    LET v1 == [v EXCEPT !.videoObserver = "observing", !.watching = TRUE]
    IN  IF v.hover /\ v.scrollIn THEN [v1 EXCEPT !.scrollObserver = "observing"]
        ELSE IF v.hover THEN v1
        ELSE IF v.reduced THEN videoPause(v1)
        ELSE IF v.scrollIn THEN [v1 EXCEPT !.scrollObserver = "observing"]
        ELSE addListeners(v1, {"canplaythrough"})

handlePlaybackButtons(v) ==
    IF ~v.button THEN v
    ELSE LET v1 == addListeners(toggleButtonState(v, ~v.paused),
                                {"click", "play", "pause"})
         IN  [v1 EXCEPT !.registry.types = @ \o <<"click", "play", "pause">>]

setupHoverPlay(v) ==
    IF ~v.hover THEN v
    ELSE LET v1 == addListeners(showPictureElement(v), {"mouseenter", "mouseleave"})
         IN  [v1 EXCEPT !.registry.types = @ \o <<"mouseenter", "mouseleave">>]

\* init(), on a page with a video.
videoInit(v) ==
    LET v1 == setupHoverPlay(handlePlaybackButtons(
                 setupLazyLoading(removeDesktopOnlyVideos(v))))
    IN  IF v.desktopOnly
        THEN addListeners([v1 EXCEPT !.resizeHandler = TRUE], {"resize"})
        ELSE v1

\* Faulty variant: the reduced-motion check is missing.
mouseEnterHandler_NoMotionCheck(v) == lazyLoadVideo(hidePictureElement(v), "hover")

mouseEnterHandler(v) ==
    IF v.reduced THEN v
    ELSE lazyLoadVideo(hidePictureElement(v), "hover")

mouseLeaveHandler(v) == videoPause(v)

\* clickHandler of the playback button.
playbackClickHandler(v) ==
    IF v.paused THEN lazyLoadVideo(v, "click")
    ELSE toggleButtonState(videoPause(v), FALSE)

\* playVideo(id) runs up to its await: lazyLoadVideo is called, and the rest
\* of the function waits, for canplaythrough if the load has just started,
\* for the end of the running script otherwise.
playVideo(v) ==
    IF ~v.src THEN [v EXCEPT !.src = TRUE, !.waiting = "api"]
    ELSE [v EXCEPT !.microtasks = Append(@, "api")]

\* The script has ended: the continuation queued first runs.
runMicrotask(v) == then([v EXCEPT !.microtasks = Tail(@)], Head(v.microtasks))

pauseVideo(v) == videoPause(v)

\* pauseAllVideos(), on the page's one video.
pauseAllVideos(v) == videoPause(v)

\* The callback of the scroll observer: of setupScrollInPlayForHover for a
\* hover video, of setupScrollInPlay otherwise.
scrollObserverCallback(v, isIntersecting) ==
    IF v.hover
    THEN IF isIntersecting THEN lazyLoadVideo(v, "scrollHover") ELSE v
    ELSE IF isIntersecting THEN lazyLoadVideo(v, "scroll") ELSE videoPause(v)

\* canplaythrough: the listener of setupAutoplay, then the waiting promise.
canPlayThrough(v) ==
    LET v1 == [v EXCEPT !.ready = TRUE, !.waiting = "none"]
        v2 == IF v.domListeners["canplaythrough"] > 0 /\ ~v.reduced
              THEN videoPlay(hidePictureElement(v1), "autoplay")
              ELSE v1
    IN  then(v2, v.waiting)

\* The window's resize listener and the callback of its timer.
videoResizeHandler(v) == [v EXCEPT !.resizeTimeout = "pending"]

\* destroy(): the observers are disconnected; then forEach is called on
\* this.eventListeners, which exists on a Map and not on a WeakMap, so with
\* the WeakMap of the constructor the call raises a TypeError and the rest of
\* destroy does not run.
destroy(v) ==
    LET v1 == [v EXCEPT !.videoObserver = IF @ = "null" THEN @ ELSE "disconnected",
                        !.watching = FALSE,
                        !.scrollObserver = "none"]
    IN  IF v.registry.kind # "Map" THEN [v1 EXCEPT !.error = "TypeError"]
        ELSE [v1 EXCEPT !.domListeners =
                           [ty \in ListenerTypes |->
                              IF \E k \in DOMAIN v.registry.types :
                                    v.registry.types[k] = ty \/ ty = "resize"
                              THEN 0 ELSE @[ty]],
                        !.registry = [kind |-> "WeakMap", types |-> <<>>],
                        !.resizeHandler = FALSE,
                        !.resizeTimeout = "null",
                        !.error = "none"]

reinitialize(v) ==
    LET v1 == destroy(v)
    IN  IF v1.error # "none" THEN v1 ELSE videoInit(v1)

\* new VideoLibrary() on a page whose video has the given attributes.
NewVideoLibrary(reduced, hover, scrollIn, desktopOnly, button, small) ==
    videoInit([reduced |-> reduced, hover |-> hover, scrollIn |-> scrollIn,
               desktopOnly |-> desktopOnly, button |-> button, small |-> small,
               display |-> "", picture |-> TRUE, src |-> FALSE, ready |-> FALSE,
               waiting |-> "none", paused |-> TRUE, playBy |-> "none",
               queued |-> <<>>, microtasks |-> <<>>,
               label |-> "unset", pointer |-> FALSE, videoObserver |-> "null",
               watching |-> FALSE, scrollObserver |-> "none",
               domListeners |-> [ty \in ListenerTypes |-> 0],
               registry |-> [kind |-> "WeakMap", types |-> <<>>],
               resizeHandler |-> FALSE, resizeTimeout |-> "null",
               error |-> "none"])

\* SpecVideo: the library constructed on a page with one video and no tab
\* group; every event of the page and every public method.
InitVideo ==
    /\ \E reduced \in BOOLEAN, hover \in BOOLEAN, scrollIn \in BOOLEAN,
          desktopOnly \in BOOLEAN, button \in BOOLEAN, small \in BOOLEAN :
          library = NewVideoLibrary(reduced, hover, scrollIn, desktopOnly,
                                    button, small)
    /\ sliders = <<>>
    /\ Holds(Markup(0, 0, LinkIds(0, FALSE), FALSE, FALSE, FALSE, "absent", {}))
    /\ visible = "none"
    /\ hovered = FALSE
    /\ manualOff = FALSE
    /\ runTime = 0
    /\ redundantResume = FALSE
    /\ siblings = <<>>
    /\ mountLog = <<>>
    /\ cleaned = FALSE
    /\ lastEvent = "new"
    /\ NoThemeToggle

\* A step of the video page: the library becomes v, e is the event.
VideoBecomes(v, e) ==
    /\ Len(v.queued) <= MaxQueued
    /\ Len(v.microtasks) <= MaxMicrotasks
    /\ library' = v
    /\ lastEvent' = e
    /\ NoTabs
    /\ UNCHANGED sliders
    /\ UNCHANGED <<scripts, checkboxes, classList, localStorage, prefersDark,
                   isLight, savedTheme, savedMode, themeListeners>>

\* The browser starts a task (an event, an observer report, a timer) only
\* when no microtask is left.
Idle == library.microtasks = <<>>

VideoIntersect ==
    /\ Idle
    /\ library.videoObserver = "observing" /\ library.watching
    /\ VideoBecomes(lazyLoadVideo(library, "unobserve"), "intersect")

ScrollReport(isIntersecting) ==
    /\ Idle
    /\ library.scrollObserver = "observing"
    /\ VideoBecomes(scrollObserverCallback(library, isIntersecting), "scroll")

CanPlayThrough ==
    /\ Idle
    /\ library.src /\ ~library.ready
    /\ VideoBecomes(canPlayThrough(library), "canplaythrough")

\* The play or pause event queued first is fired.
MediaEvent ==
    /\ Idle
    /\ library.queued # <<>>
    /\ VideoBecomes(fireQueued(library), Head(library.queued))

PointerEnter ==
    /\ Idle
    /\ ~library.pointer
    /\ LET v == [library EXCEPT !.pointer = TRUE]
       IN  VideoBecomes(IF v.domListeners["mouseenter"] > 0
                        THEN mouseEnterHandler(v) ELSE v, "mouseenter")

PointerLeave ==
    /\ Idle
    /\ library.pointer
    /\ LET v == [library EXCEPT !.pointer = FALSE]
       IN  VideoBecomes(IF v.domListeners["mouseleave"] > 0
                        THEN mouseLeaveHandler(v) ELSE v, "mouseleave")

PlaybackClick ==
    /\ Idle
    /\ library.domListeners["click"] > 0
    /\ VideoBecomes(playbackClickHandler(library), "click")

\* The public methods, called on window.videoLibrary by a script of the
\* page; a script may call several of them before it ends.
PlayVideoCall ==
    /\ library # <<>>
    /\ VideoBecomes(playVideo(library), "playVideo")

PauseVideoCall ==
    /\ library # <<>>
    /\ VideoBecomes(pauseVideo(library), "pauseVideo")

PauseAllVideosCall ==
    /\ library # <<>>
    /\ VideoBecomes(pauseAllVideos(library), "pauseAllVideos")

\* The script has ended; the browser runs the microtask queued first.
Microtask ==
    /\ library.microtasks # <<>>
    /\ VideoBecomes(runMicrotask(library), "microtask")

WindowResize ==
    /\ Idle
    /\ LET v == [library EXCEPT !.small = ~@]
       IN  VideoBecomes(IF v.domListeners["resize"] > 0
                        THEN videoResizeHandler(v) ELSE v, "resize")

ResizeTimeoutFire ==
    /\ Idle
    /\ library.resizeTimeout = "pending"
    /\ VideoBecomes(removeDesktopOnlyVideos([library EXCEPT !.resizeTimeout = "fired"]),
                    "resizeTimeout")

DestroyCall ==
    /\ library # <<>>
    /\ VideoBecomes(destroy([library EXCEPT !.error = "none"]), "destroy")

ReinitializeCall ==
    /\ library # <<>>
    /\ VideoBecomes(reinitialize([library EXCEPT !.error = "none"]), "reinitialize")

NextVideo ==
    \/ VideoIntersect
    \/ \E isIntersecting \in BOOLEAN : ScrollReport(isIntersecting)
    \/ CanPlayThrough
    \/ MediaEvent
    \/ PointerEnter
    \/ PointerLeave
    \/ PlaybackClick
    \/ PlayVideoCall
    \/ PauseVideoCall
    \/ PauseAllVideosCall
    \/ Microtask
    \/ WindowResize
    \/ ResizeTimeoutFire
    \/ DestroyCall
    \/ ReinitializeCall

SpecVideo == InitVideo /\ [][NextVideo]_vars

\* -------------------------------------------------------- slider adapter
\* src/inline-video.js, last script: every [data-slider="slider"] element
\* gets a carousel of the Swiper library, kept in element.swiperInstance.
\* The library is loaded (the script returns at once otherwise).  The record
\* s holds
\*   n               the number of slider elements
\*   swiperInstance  per element, the instance it refers to (0: none)
\*   created         per instance, in order of creation, its element
\*   live            the instances not destroyed
\*   timers          the pending timers of reinitialize, by call and deadline
\*   calls, now      the calls of reinitialize so far; the clock in ms
\* new Swiper(element, config); element.swiperInstance = swiper
initializeSwiper(s, element) ==
    LET id == Len(s.created) + 1
    IN  [s EXCEPT !.created = Append(@, element),
                  !.live = @ \cup {id},
                  !.swiperInstance[element] = id]

\* swiperElements.forEach(initializeSwiper), from element `first` on.
RECURSIVE initializeFrom(_, _)
initializeFrom(s, first) ==
    IF first > s.n THEN s
    ELSE initializeFrom(initializeSwiper(s, first), first + 1)

\* initializeSwipers() on a page with n slider elements.
initializeSwipers(n) ==
    initializeFrom([n |-> n, swiperInstance |-> [e \in 1 .. n |-> 0],
                    created |-> <<>>, live |-> {}, timers |-> {},
                    calls |-> 0, now |-> 0], 1)

\* The callback of the 50 ms timer of reinitialize.
reinitializeCallback(s) == initializeFrom(s, 1)

\* AttributesSwiper.reinitialize(): destroy(true, true) on what every element
\* refers to (a destroyed instance stays destroyed), then the timer.
swiperReinitialize(s) ==
    [s EXCEPT !.live = @ \ {s.swiperInstance[e] : e \in 1 .. s.n},
              !.timers = @ \cup {[call |-> s.calls + 1, fireAt |-> s.now + ReinitDelay]},
              !.calls = @ + 1]

\* SpecSlider: a page with sliders only; reinitialize is called up to
\* MaxReinits times, at any moment, and the clock advances in half delays
\* while a timer is pending.
InitSlider ==
    /\ \E n \in 1 .. MaxSliders : sliders = initializeSwipers(n)
    /\ library = <<>>
    /\ Holds(Markup(0, 0, LinkIds(0, FALSE), FALSE, FALSE, FALSE, "absent", {}))
    /\ visible = "none"
    /\ hovered = FALSE
    /\ manualOff = FALSE
    /\ runTime = 0
    /\ redundantResume = FALSE
    /\ siblings = <<>>
    /\ mountLog = <<>>
    /\ cleaned = FALSE
    /\ lastEvent = "load"
    /\ NoThemeToggle

SliderBecomes(s, e) ==
    /\ sliders' = s
    /\ lastEvent' = e
    /\ NoTabs
    /\ UNCHANGED <<library, scripts, checkboxes, classList, localStorage,
                   prefersDark, isLight, savedTheme, savedMode, themeListeners>>

ReinitializeSliders ==
    /\ sliders.calls < MaxReinits
    /\ SliderBecomes(swiperReinitialize(sliders), "reinitialize")

\* The due timer registered first fires.
SliderTimerFire ==
    /\ \E t \in sliders.timers :
          /\ t.fireAt <= sliders.now
          /\ \A u \in sliders.timers : t.call <= u.call
          /\ SliderBecomes(reinitializeCallback([sliders EXCEPT !.timers = @ \ {t}]),
                           "timer")

SliderTick ==
    /\ sliders.timers # {}
    /\ \A t \in sliders.timers : sliders.now + (ReinitDelay \div 2) <= t.fireAt
    /\ SliderBecomes([sliders EXCEPT !.now = @ + (ReinitDelay \div 2)], "tick")

NextSlider ==
    \/ ReinitializeSliders
    \/ SliderTimerFire
    \/ SliderTick

SpecSlider == InitSlider /\ [][NextSlider]_vars

\* ------------------------------------------------------------------ claims
ProgramVars ==
    <<tabMenu, dropdownMenu, tabMenuWrapper, listeners, eventListeners,
      observing, resizeTimer,
      cachedWindowWidth, resizeTimers, innerWidth,
      nLinks, nPanes, overlays, linkIds, linkNames, linkTexts,
      isMobileDropdown, dropdownToggle,
      dropdownText, toggleButton, autoplayEnabled, autoplayDuration,
      autoplayHoverPause, ariaSelected, ccActive, tabindex, ariaHidden,
      textContent, menuOpen, toggleOpen, ariaExpanded, pausedClass,
      toggleLabel, focus, currentActiveIndex, autoplayTimer,
      isAutoplayPaused, autoplayStartTime, autoplayElapsedTime, timers, now>>

SelectedLinks == {i \in 0 .. (nLinks - 1) : ariaSelected[i]}
ActiveClassLinks == {i \in 0 .. (nLinks - 1) : ccActive[i]}
ShownPanes == {i \in 0 .. (nPanes - 1) : ~ariaHidden[i]}

\* The events of Spec in which setActiveTab runs with a valid index.
ActivationEvents ==
    {"setActiveTab", "click", "ArrowLeft", "ArrowRight", "Home", "End",
     "hashchange", "timer"}

\* A step of Spec in which setActiveTab ran with a valid index, whatever
\* triggered it.
ActivationStep == lastEvent' \in ActivationEvents

\* C1: after setActiveTab(i) with a valid i, exactly one link is selected and
\* exactly one pane is shown, both at position i, for any counts of links and
\* panes.  The code breaks this when there are fewer panes than links.
C1_OneLinkAndOnePaneAtIndex ==
    [][(lastEvent' = "setActiveTab") =>
          \A index \in 0 .. (MaxTabs - 1) :
              (ValidIndex(index) /\ SetActiveTabCall(index)) =>
                  (SelectedLinks' = {index} /\ ShownPanes' = {index})]_vars

\* C2: in every state after mount, currentActiveIndex is a valid link index and
\* the link at that index is the only one with aria-selected=true and the only
\* one with class cc-active.
C2_ActiveIndexInvariant ==
    /\ currentActiveIndex \in 0 .. (nLinks - 1)
    /\ SelectedLinks = {currentActiveIndex}
    /\ ActiveClassLinks = {currentActiveIndex}

\* C2 witness: a keyboard wrap-around to the last of three tabs while autoplay
\* is paused.
C2_Witness ==
    /\ lastEvent = "ArrowLeft"
    /\ nLinks = 3
    /\ currentActiveIndex = 2
    /\ isAutoplayPaused

\* C3: setActiveTab with an out-of-range index changes nothing: the active
\* index, every DOM attribute, the dropdown, the elapsed time, the paused flag
\* and the scheduled timer stay as they were.
C3_OutOfRangeIsNoOp ==
    [][(lastEvent' = "setActiveTabInvalid") => UNCHANGED ProgramVars]_vars

\* C3 witness: an out-of-range call was made while the dropdown was open and
\* an autoplay timer was pending.
C3_Witness ==
    /\ lastEvent = "setActiveTabInvalid"
    /\ menuOpen
    /\ timers # {}

\* C4: with autoplay enabled, isAutoplayPaused is the OR of the three pause
\* sources: reported out of view, hovered with hover-pause configured,
\* manually toggled off.  The code resumes on any one source clearing.
C4_PausedIsOrOfSources ==
    autoplayEnabled =>
        (isAutoplayPaused <=>
            (visible = "no" \/ (autoplayHoverPause /\ hovered) \/ manualOff))

\* C5: at most one autoplay timer is pending at any instant.
C5_AtMostOneTimer == Cardinality(timers) <= 1

\* C5 witness: a timer is pending after a pause and a resume in mid-cycle.
C5_Witness ==
    /\ lastEvent = "mouseleave"
    /\ Cardinality(timers) = 1
    /\ autoplayElapsedTime > 0

\* C6: as long as every resume of the cycle followed a pause, the time left on
\* the pending timer is the duration minus the time already run on the tab
\* (so a resume after running e ms schedules D - e), and while paused the
\* elapsed time is the time already run: the segments sum to the duration.
C6_ResumeSchedulesRemainder ==
    (autoplayEnabled /\ ~redundantResume) =>
        IF isAutoplayPaused
        THEN autoplayElapsedTime = runTime /\ timers = {}
        ELSE \E t \in timers :
                /\ t.fireAt - now = autoplayDuration * MsPerSecond - runTime
                /\ t.delay = autoplayDuration * MsPerSecond - autoplayElapsedTime

\* C6 witness: duration 5000, paused 2000 ms into the cycle, resumed: the timer
\* was scheduled with delay 3000.
C6_Witness ==
    /\ autoplayDuration = 5
    /\ ~redundantResume
    /\ runTime = 2000
    /\ \E t \in timers : t.delay = 3000 /\ t.fireAt = now + 3000

\* C7: the time autoplay runs on the active tab before the auto-advance never
\* exceeds the configured duration, also when a resume arrives while autoplay
\* is already running.  The code restarts the full remaining delay on such a
\* resume without accounting for the time already run.
C7_DwellWithinDuration ==
    autoplayEnabled => runTime <= autoplayDuration * MsPerSecond

\* C8: with autoplay enabled, a tab switch while paused sets the elapsed time
\* to 0 and leaves no timer scheduled; a tab switch while running leaves exactly
\* one timer, scheduled now with the full duration, and elapsed time 0.
C8_SwitchResetsCycle ==
    [][(ActivationStep /\ autoplayEnabled) =>
          /\ autoplayElapsedTime' = 0
          /\ IF isAutoplayPaused
             THEN timers' = {} /\ autoplayTimer' = NoTimer
             ELSE \E id \in 1 .. 3 :
                    /\ autoplayTimer' = id
                    /\ timers' = {[id |-> id,
                                   fireAt |-> now + autoplayDuration * MsPerSecond,
                                   delay |-> autoplayDuration * MsPerSecond]}]_vars

\* C8 witness: a click switched to the last of three tabs while paused, after
\* time had passed.
C8_Witness ==
    /\ lastEvent = "click"
    /\ isAutoplayPaused
    /\ nLinks = 3 /\ currentActiveIndex = 2
    /\ now >= 1000
    /\ autoplayElapsedTime = 0
    /\ timers = {}

\* C9 as stated: the elapsed time is reset by a tab change while not paused and
\* preserved by a tab change while paused.
C9_ElapsedPreservedWhilePaused ==
    [][(ActivationStep /\ autoplayEnabled) =>
          IF isAutoplayPaused
          THEN autoplayElapsedTime' = autoplayElapsedTime
          ELSE autoplayElapsedTime' = 0]_vars

\* C9 amended: with autoplay enabled, every tab change sets the elapsed time to
\* 0, while paused as well as while running.
C9_ElapsedResetOnEverySwitch ==
    [][(ActivationStep /\ autoplayEnabled) => autoplayElapsedTime' = 0]_vars

\* C9 witness: a keyboard switch while paused, after time had passed, with the
\* elapsed time at 0.
C9_Witness ==
    /\ lastEvent = "End"
    /\ isAutoplayPaused
    /\ visible = "no"
    /\ now >= 1000
    /\ autoplayElapsedTime = 0

\* The index the claim gives for a key, with n tabs and active index a.
C10_Expected(key, a, n) ==
    CASE key = "ArrowRight" -> (a + 1) % n
      [] key = "ArrowLeft" -> (a + n - 1) % n
      [] key = "Home" -> 0
      [] key = "End" -> n - 1

\* C10: a keydown of ArrowRight, ArrowLeft, Home or End on any tab control makes
\* the active index (a+1) mod n, (a-1) mod n, 0 or n-1, computed from the
\* group's active index a, whichever control received the key.
C10_KeyboardIndex ==
    [][(lastEvent' \in Keys \ {"Other"}) =>
          currentActiveIndex' = C10_Expected(lastEvent', currentActiveIndex, nLinks)]_vars

\* C10 witness: ArrowRight wrapped from the last of three tabs to tab 0.
C10_Witness ==
    /\ lastEvent = "ArrowRight"
    /\ nLinks = 3
    /\ currentActiveIndex = 0

\* The root s has every piece the claims require of a tab group.
Complete(s) ==
    s.tabMenu /\ s.dropdownMenu /\ s.tabMenuWrapper /\ s.nLinks >= 1 /\ s.nPanes >= 1

AllPiecesPresent == Complete(St)

Least(S) == CHOOSE i \in S : \A j \in S : i <= j

\* The index the claim gives for the fragment and the pre-marked links of the
\* mount: first fragment match, else first pre-marked link, else 0.
C11_Expected ==
    LET hash == mountLog[1].hash
        matching == {i \in 0 .. (nLinks - 1) : hash # 0 /\ linkIds[i] = hash}
        marked == mountLog[1].active
    IN  IF matching # {} THEN Least(matching)
        ELSE IF marked # {} THEN Least(marked)
        ELSE 0

\* C11: right after mount the active index is the first tab whose id equals
\* the URL fragment, overriding any tab pre-marked cc-active; otherwise the
\* first tab carrying cc-active; otherwise 0.  A fragment that matches no tab
\* falls through to the pre-marked tab and then to 0.
C11_InitialIndexPriority ==
    (mountLog # <<>> /\ AllPiecesPresent) =>
        /\ currentActiveIndex = C11_Expected
        /\ SelectedLinks = {C11_Expected}

\* C11 witness: three tabs, tab 0 pre-marked, fragment naming tab 2: tab 2 is
\* active after mount.
C11_Witness ==
    /\ mountLog = <<[hash |-> 3, active |-> {0}]>>
    /\ nLinks = 3
    /\ linkIds[2] = 3
    /\ currentActiveIndex = 2
    /\ ariaSelected[2]

\* C12: toggleDropdown() called twice in a row restores the dropdown (menu
\* open class, toggle open class, aria-expanded) and every other part of the
\* state; an Escape keydown while the dropdown is open closes it and moves
\* the focus to the dropdown toggle.
C12_ToggleTwiceAndEscape ==
    /\ [](("dropdownToggle.click" \in listeners) =>
            toggleDropdown(toggleDropdown(St)) = St)
    /\ [][(lastEvent' = "Escape" /\ menuOpen) =>
            /\ ~menuOpen' /\ ~toggleOpen' /\ ariaExpanded' = "false"
            /\ focus' = "toggle"]_vars

\* C12 witness: Escape closed the dropdown of a group after a keyboard switch
\* had put the focus on a tab, and the focus is on the toggle.
C12_Witness ==
    /\ lastEvent = "Escape"
    /\ "dropdownToggle.click" \in listeners
    /\ ~menuOpen /\ ~toggleOpen /\ ariaExpanded = "false"
    /\ focus = "toggle"
    /\ currentActiveIndex = nLinks - 1 /\ nLinks = 3

\* Everything the group owns: its closure state, its DOM attributes, its
\* listeners and its pending timers (not the clock and the window width).
GroupVars ==
    <<listeners, eventListeners, observing, resizeTimer, cachedWindowWidth,
      resizeTimers, ariaSelected, ccActive, tabindex, ariaHidden, textContent,
      menuOpen, toggleOpen, ariaExpanded, pausedClass, toggleLabel, focus,
      currentActiveIndex, autoplayTimer, isAutoplayPaused, autoplayStartTime,
      autoplayElapsedTime, timers>>

\* C13: once cleanup has been called, in whatever state, no autoplay or resize
\* timer is pending (so none fires), and no later event (click, keydown,
\* mouseenter, mouseleave, resize, hashchange, document click, Escape,
\* observer report, passing of time) changes the active index, the dropdown,
\* the autoplay state or anything else the group owns.
C13_NothingAfterCleanup ==
    /\ [](cleaned => (timers = {} /\ resizeTimers = {}
                      /\ listeners = {} /\ ~observing))
    /\ [][cleaned => UNCHANGED GroupVars]_vars

\* C13 witness: cleanup was called with the dropdown open; since then the
\* pointer entered the group without pausing autoplay, the window was resized
\* without the cached width following, and the clock reached the end of the
\* cycle with tab 0 still active.
C13_Witness ==
    /\ cleaned
    /\ menuOpen
    /\ hovered /\ ~isAutoplayPaused
    /\ innerWidth # cachedWindowWidth
    /\ now = autoplayDuration * MsPerSecond
    /\ currentActiveIndex = 0

\* C14: a root mounts (its listeners are registered, its active tab is
\* marked) only if the menu container, the dropdown menu, the menu wrapper, a
\* link and a pane are all present; a root with a piece missing is left
\* exactly as it was (no listener, observer, timer or attribute), and every
\* complete root after it on the page is still mounted.
C14_MountOnlyWhenComplete ==
    [][(mountLog = <<>>) =>
          /\ IF AllPiecesPresent
             THEN /\ "hashchange" \in listeners'
                  /\ SelectedLinks' = {currentActiveIndex'}
                  /\ autoplayEnabled => (observing' /\ timers' # {})
             ELSE UNCHANGED ProgramVars
          /\ \A i \in DOMAIN siblings :
                IF Complete(siblings[i])
                THEN /\ "hashchange" \in siblings'[i].listeners
                     /\ siblings'[i].ariaSelected[siblings'[i].currentActiveIndex]
                ELSE siblings'[i] = siblings[i]]_vars

\* C14 witness: after initAllTabs an autoplay root without panes has no
\* listener, observer, timer or aria attribute, and the complete root after
\* it is mounted and running.
C14_Witness ==
    /\ mountLog # <<>>
    /\ nPanes = 0 /\ nLinks = 3 /\ autoplayEnabled
    /\ listeners = {} /\ ~observing /\ timers = {}
    /\ SelectedLinks = {} /\ tabindex[0] = "unset"
    /\ Len(siblings) = 1
    /\ siblings[1].listeners # {}
    /\ siblings[1].timers # {}

\* C15: setActiveTab(i) with i the already-active index leaves the dropdown
\* state, the elapsed time and the deadline of the pending autoplay timer as
\* they were.  The code closes an open dropdown, zeroes the elapsed time and
\* reschedules the timer with the full duration on every valid call.
C15_SameIndexIsNoOp ==
    [][(lastEvent' = "setActiveTab" /\ currentActiveIndex' = currentActiveIndex) =>
          /\ UNCHANGED <<menuOpen, toggleOpen, ariaExpanded, autoplayElapsedTime>>
          /\ {u.fireAt : u \in timers'} = {u.fireAt : u \in timers}]_vars

\* The mode the root shows for a script: TRUE for light (resp. invert).
ShowsLight == "u-mode-light" \in classList
ShowsInvert == "u-mode-invert" \in classList

\* C16: with several checkboxes, after a change event on any checkbox and
\* after an OS colour-scheme change that a listener applied, every checkbox
\* equals the current mode and the root carries exactly one class of each
\* pair its scripts manage (light xor dark, invert xor base); after a
\* checkbox change the mode is the value just chosen on that checkbox and the
\* stored preference names it.
C16_TogglesInSync ==
    /\ []((Len(checkboxes) >= 2 /\ lastEvent \in {"change", "osChange"}) =>
            /\ ("theme" \in scripts) =>
                  /\ ShowsLight # ("u-mode-dark" \in classList)
                  /\ \A i \in DOMAIN checkboxes : checkboxes[i] = ShowsLight
            /\ ("invert" \in scripts) =>
                  /\ ShowsInvert # ("u-mode-base" \in classList)
                  /\ \A i \in DOMAIN checkboxes : checkboxes[i] = ShowsInvert)
    /\ [][(Len(checkboxes) >= 2 /\ lastEvent' = "change") =>
            \E i \in DOMAIN checkboxes :
               /\ CheckboxChange(i)
               /\ checkboxes'[i] = ~checkboxes[i]
               /\ ("theme" \in scripts) =>
                     /\ ShowsLight' = checkboxes'[i]
                     /\ localStorage'.savedTheme =
                           (IF checkboxes'[i] THEN "light" ELSE "dark")
               /\ ("invert" \in scripts) =>
                     /\ ShowsInvert' = checkboxes'[i]
                     /\ localStorage'.invertMode =
                           (IF checkboxes'[i] THEN "true" ELSE "false")]_vars

\* C16 witness: three checkboxes under both scripts, all unchecked after a
\* change that chose dark although the OS prefers light, with the preference
\* stored.
C16_Witness ==
    /\ lastEvent = "change"
    /\ scripts = {"theme", "invert"}
    /\ checkboxes = <<FALSE, FALSE, FALSE>>
    /\ ~prefersDark
    /\ classList = {"u-mode-dark", "u-mode-base"}
    /\ localStorage = [savedTheme |-> "dark", invertMode |-> "false"]

\* C17: whenever autoplay is disabled or paused, no autoplay timer is
\* scheduled (autoplayTimer is null and no timer is pending), and
\* startAutoplay() called in that state returns the state unchanged.
C17_NoTimerWhileStopped ==
    (~autoplayEnabled \/ isAutoplayPaused) =>
        /\ autoplayTimer = NoTimer
        /\ timers = {}
        /\ startAutoplay(St) = St

\* C17 witness: paused by the pointer one second into the cycle.
C17_Witness ==
    /\ lastEvent = "mouseenter"
    /\ isAutoplayPaused
    /\ autoplayElapsedTime = 1000
    /\ autoplayTimer = NoTimer

\* C18: when the autoplay timer fires with n tabs and active index a, the
\* active index becomes (a+1) mod n (for n = 1 the same tab again), the
\* elapsed time becomes 0 and exactly one timer is pending, scheduled now with
\* the full configured duration.
C18_TimerAdvancesCyclically ==
    [][(lastEvent' = "timer") =>
          /\ currentActiveIndex' = (currentActiveIndex + 1) % nLinks
          /\ SelectedLinks' = {(currentActiveIndex + 1) % nLinks}
          /\ autoplayElapsedTime' = 0
          /\ Cardinality(timers') = 1
          /\ \A u \in timers' :
                /\ u.id = autoplayTimer'
                /\ u.delay = autoplayDuration * MsPerSecond
                /\ u.fireAt = now + autoplayDuration * MsPerSecond]_vars

\* C18 witness: the timer fired on the last of three tabs and tab 0 is active
\* with a fresh timer.
C18_Witness ==
    /\ lastEvent = "timer"
    /\ nLinks = 3
    /\ currentActiveIndex = 0
    /\ \E u \in timers : u.fireAt = now + 2000

\* C19: between handlers autoplayStartTime is non-null exactly when an
\* autoplay timer is pending; it is null while autoplay is disabled or paused,
\* and it is the time at which the pending timer was scheduled.
C19_StartTimeIffTimer ==
    /\ (autoplayStartTime # NULL) <=> (timers # {})
    /\ (autoplayStartTime # NULL) <=> (autoplayTimer # NoTimer)
    /\ (~autoplayEnabled \/ isAutoplayPaused) => autoplayStartTime = NULL
    /\ \A u \in timers :
          /\ u.id = autoplayTimer
          /\ autoplayStartTime = u.fireAt - Max(0, u.delay)

\* C19 witness: resumed one second into the cycle; the timer for the second
\* half was scheduled at 1000.
C19_Witness ==
    /\ lastEvent = "mouseleave"
    /\ autoplayStartTime = 1000
    /\ timers = {[id |-> autoplayTimer, fireAt |-> 2000, delay |-> 1000]}

\* The states in which stopAutoplay can be called: the state between two
\* handlers, and the state in which the callback of a timer starts (the
\* browser has dropped the timer, autoplayTimer still holds its id).
C20_CallStates == {St} \cup {[St EXCEPT !.timers = @ \ {u}] : u \in timers}

\* C20: stopAutoplay() in any state leaves no pending timer and a null
\* cycle-start timestamp, changes neither the elapsed time, the paused flag
\* nor the active index; called with no timer pending between handlers it
\* changes nothing, and a second call changes nothing after the first.
C20_StopIsIdempotent ==
    \A s \in C20_CallStates :
        LET s1 == stopAutoplay(s)
        IN  /\ s1.timers = {}
            /\ s1.autoplayTimer = NoTimer
            /\ s1.autoplayStartTime = NULL
            /\ s1.autoplayElapsedTime = s.autoplayElapsedTime
            /\ s1.isAutoplayPaused = s.isAutoplayPaused
            /\ s1.currentActiveIndex = s.currentActiveIndex
            /\ stopAutoplay(s1) = s1
            /\ (s = St /\ timers = {}) => s1 = St

\* C20 witness: the toggle button paused autoplay one second into the cycle:
\* stopAutoplay ran inside pauseAutoplay, the elapsed time is kept.
C20_Witness ==
    /\ lastEvent = "toggle"
    /\ isAutoplayPaused
    /\ autoplayElapsedTime = 1000
    /\ timers = {} /\ autoplayStartTime = NULL

\* A step of Spec in which a handler called pauseAutoplay(): the pointer
\* entered a group with hover-pause, the observer reported the group out of
\* view, or the toggle button was clicked while autoplay was running.
PauseStep ==
    \/ lastEvent' = "mouseenter" /\ "mouseenter" \in listeners
    \/ lastEvent' = "observe" /\ visible' = "no"
    \/ lastEvent' = "toggle" /\ ~isAutoplayPaused

\* The time since the running segment of the cycle started: the time since
\* the pending timer was scheduled, or 0 when no timer is pending.
SegmentTime ==
    IF timers = {} THEN 0
    ELSE LET u == CHOOSE u \in timers : TRUE
         IN  now - (u.fireAt - Max(0, u.delay))

\* C21: pauseAutoplay() adds to autoplayElapsedTime exactly the time since the
\* running segment started, and nothing when no cycle is running, so a second
\* pause without a resume in between leaves the elapsed time as it was; after
\* any pause isAutoplayPaused is true and no timer is pending.
C21_PauseAddsSegment ==
    /\ [][PauseStep =>
            /\ autoplayElapsedTime' = autoplayElapsedTime + SegmentTime
            /\ isAutoplayPaused => autoplayElapsedTime' = autoplayElapsedTime
            /\ isAutoplayPaused' /\ pausedClass'
            /\ timers' = {} /\ autoplayTimer' = NoTimer]_vars
    /\ [](autoplayEnabled =>
            pauseAutoplay(pauseAutoplay(St)).autoplayElapsedTime
                = pauseAutoplay(St).autoplayElapsedTime)

\* C21 witness: scrolled out of view one second into the cycle, and the
\* pointer entered a second later: the elapsed time is still 1000.
C21_Witness ==
    /\ lastEvent = "mouseenter"
    /\ "mouseenter" \in listeners
    /\ visible = "no"
    /\ now = 2000
    /\ autoplayElapsedTime = 1000
    /\ isAutoplayPaused /\ timers = {}

\* C22: after every setActiveTab call with a valid index, whatever triggered
\* it (direct call, click, keyboard, hash change, autoplay timer), the mobile
\* dropdown is closed: neither the menu nor the toggle carries the open class,
\* and if the dropdown was open before the call aria-expanded is false.
C22_ActivationClosesDropdown ==
    [][ActivationStep =>
          /\ ~menuOpen' /\ ~toggleOpen'
          /\ ariaExpanded' # "true"
          /\ menuOpen => ariaExpanded' = "false"]_vars

\* C22 witness: the dropdown of an autoplay group is open when the timer of
\* tab 0 comes due, and the callback of the timer activates tab 1 with the
\* dropdown closed.
C22_Witness ==
    /\ menuOpen /\ toggleOpen /\ ariaExpanded = "true"
    /\ currentActiveIndex = 0
    /\ \E t \in timers :
          /\ t.fireAt <= now
          /\ LET s == autoplayCallback([St EXCEPT !.timers = @ \ {t}])
             IN  /\ s.currentActiveIndex = 1
                 /\ ~s.menuOpen /\ ~s.toggleOpen /\ s.ariaExpanded = "false"

\* What the dropdown functions must leave alone in state s: the active index,
\* the selected state of the tabs, the hidden state of the panes and the
\* autoplay state.
DropdownFrame(s) ==
    <<s.currentActiveIndex, s.ariaSelected, s.ccActive, s.tabindex, s.ariaHidden,
      s.isAutoplayPaused, s.pausedClass, s.autoplayElapsedTime, s.autoplayTimer,
      s.autoplayStartTime, s.timers>>

\* C23: openDropdown, closeDropdown, toggleDropdown, the outside-click handler
\* and the Escape handler never change the active index, any tab's selected
\* state, any pane's hidden state or the autoplay state (paused flag, elapsed
\* time, pending timer).
C23_DropdownFrame ==
    /\ [](/\ DropdownFrame(openDropdown(St)) = DropdownFrame(St)
          /\ DropdownFrame(closeDropdown(St)) = DropdownFrame(St)
          /\ DropdownFrame(toggleDropdown(St)) = DropdownFrame(St)
          /\ \A inside \in BOOLEAN :
                DropdownFrame(outsideClickHandler(St, inside)) = DropdownFrame(St)
          /\ DropdownFrame(escapeHandler(St)) = DropdownFrame(St))
    /\ [][(lastEvent' \in {"dropdownToggle", "documentClick", "Escape"}) =>
            UNCHANGED <<currentActiveIndex, ariaSelected, ccActive, tabindex,
                        ariaHidden, isAutoplayPaused, pausedClass,
                        autoplayElapsedTime, autoplayTimer, autoplayStartTime,
                        timers>>]_vars

\* C23 witness: the dropdown was opened one second into the cycle of tab 1
\* and the timer scheduled at the hash-selected mount is still pending.
C23_Witness ==
    /\ lastEvent = "dropdownToggle"
    /\ menuOpen
    /\ nLinks = 2 /\ nPanes = 2
    /\ currentActiveIndex = 1 /\ ariaSelected[1] /\ ~ariaHidden[1]
    /\ now = 1000
    /\ ~isAutoplayPaused /\ autoplayElapsedTime = 0
    /\ timers = {[id |-> autoplayTimer, fireAt |-> 2000, delay |-> 2000]}

\* C24: in dropdown layout a document click outside the root closes the
\* dropdown, a click inside the root (not on the toggle or a tab control)
\* leaves the dropdown as it is, and an Escape keydown while the dropdown is
\* closed changes neither the dropdown nor the focus.
C24_OutsideClickAndEscape ==
    /\ [](("document.click" \in listeners) =>
            /\ LET s == outsideClickHandler(St, FALSE)
               IN  ~s.menuOpen /\ ~s.toggleOpen /\ s.ariaExpanded = "false"
            /\ outsideClickHandler(St, TRUE) = St)
    /\ [][(lastEvent' = "documentClick") =>
            \/ UNCHANGED ProgramVars
            \/ (menuOpen /\ ~menuOpen' /\ ~toggleOpen' /\ ariaExpanded' = "false")]_vars
    /\ [][(lastEvent' = "Escape" /\ ~menuOpen) =>
            UNCHANGED <<menuOpen, toggleOpen, ariaExpanded, focus>>]_vars

\* C24 witness: a document click inside the root arrived while the dropdown
\* was open and left it open (a click outside would close it), with the
\* focus still on the tab the keyboard moved it to.
C24_Witness ==
    /\ lastEvent = "documentClick"
    /\ menuOpen /\ toggleOpen /\ ariaExpanded = "true"
    /\ focus = "link1"
    /\ ~outsideClickHandler(St, FALSE).menuOpen

\* The tabs whose id equals the fragment `hash` (0 is the empty fragment).
C25_Matching(hash) == {i \in 0 .. (nLinks - 1) : hash # 0 /\ linkIds[i] = hash}

\* C25: on a hashchange after mount, a fragment equal to the id of some tab
\* leads to setActiveTab with the index of the first such tab; an empty
\* fragment or one that matches no tab leaves the active index, the dropdown
\* and the autoplay state (and everything else) unchanged.
C25_HashChange ==
    /\ [](("hashchange" \in listeners) =>
            \A hash \in Hashes :
               IF C25_Matching(hash) # {}
               THEN hashChangeHandler(St, hash)
                       = setActiveTab(St, Least(C25_Matching(hash)))
               ELSE hashChangeHandler(St, hash) = St)
    /\ [][(lastEvent' = "hashchangeIgnored") => UNCHANGED ProgramVars]_vars
    /\ [][(lastEvent' = "hashchange") =>
            /\ \E hash \in Hashes :
                  /\ C25_Matching(hash) # {}
                  /\ currentActiveIndex' = Least(C25_Matching(hash))
            /\ SelectedLinks' = {currentActiveIndex'}]_vars

\* C25 witness: three tabs, the first two sharing one id; the keyboard had
\* moved to the last tab, and a hashchange to the shared id activated tab 0.
C25_Witness ==
    /\ lastEvent = "hashchange"
    /\ nLinks = 3
    /\ linkIds[0] = linkIds[1]
    /\ focus = "link2"
    /\ currentActiveIndex = 0 /\ ariaSelected[0]

\* What the claim says a key without a case leaves alone.
C26_Frame ==
    <<currentActiveIndex, ariaSelected, ariaHidden, focus, menuOpen, toggleOpen,
      ariaExpanded, isAutoplayPaused, autoplayElapsedTime, autoplayTimer,
      autoplayStartTime, timers>>

\* C26 as stated: a keydown on a tab control with any key other than
\* ArrowLeft, ArrowRight, Home or End is not default-prevented and leaves the
\* active index, the focus, the dropdown and the autoplay state unchanged.
\* Escape is such a key, and with the dropdown open it closes the dropdown and
\* moves the focus.
C26_OtherKeysIgnored ==
    /\ [](\A key \in TabKeys \ {"ArrowLeft", "ArrowRight", "Home", "End"} :
             ~keyPreventsDefault(key))
    /\ [][(lastEvent' \in {"Other", "EscapeOnTab"}) => UNCHANGED C26_Frame]_vars

\* C26 amended: such a key is never default-prevented and never changes the
\* active index or the autoplay state; it leaves the focus and the dropdown
\* unchanged too, except Escape while the dropdown is open, which reaches the
\* document listener: the dropdown closes and the focus moves to the toggle.
C26_OtherKeysExceptEscape ==
    /\ [](\A key \in TabKeys \ {"ArrowLeft", "ArrowRight", "Home", "End"} :
             ~keyPreventsDefault(key))
    /\ [][(lastEvent' \in {"Other", "EscapeOnTab"}) =>
            IF lastEvent' = "EscapeOnTab" /\ menuOpen
            THEN /\ ~menuOpen' /\ ~toggleOpen' /\ ariaExpanded' = "false"
                 /\ focus' = "toggle"
                 /\ UNCHANGED <<currentActiveIndex, ariaSelected, ariaHidden,
                                isAutoplayPaused, autoplayElapsedTime,
                                autoplayTimer, autoplayStartTime, timers>>
            ELSE UNCHANGED ProgramVars]_vars

\* C26 witness: a key without a case was pressed on tab 1 one second into its
\* cycle, with the dropdown open: the dropdown is open, the focus is on the
\* tab and the timer of the cycle is pending.
C26_Witness ==
    /\ lastEvent = "Other"
    /\ menuOpen /\ focus = "link1" /\ currentActiveIndex = 1
    /\ now = 1000
    /\ \E u \in timers : u.fireAt = 2000 /\ u.delay = 2000

\* The tab controls in the keyboard tab order: those whose tabindex is not -1
\* (a control without the attribute is in the order by default).
InTabOrder == {i \in overlays : tabindex[i] # "-1"}

\* C27: after every setActiveTab call with a valid index, and so in every
\* state after mount, among the tab controls that exist the control of the
\* active tab has tabindex 0 and every other control has tabindex -1: at most
\* one tab control is in the keyboard tab order.
C27_RovingTabindex ==
    /\ \A i \in overlays :
          tabindex[i] = (IF i = currentActiveIndex THEN "0" ELSE "-1")
    /\ Cardinality(InTabOrder) <= 1
    /\ InTabOrder \subseteq {currentActiveIndex}

\* C27 witness: three links, the second without a control; End moved from
\* tab 0 to tab 2, whose control is the only one in the tab order.
C27_Witness ==
    /\ lastEvent = "End"
    /\ nLinks = 3 /\ overlays = {0, 2}
    /\ currentActiveIndex = 2
    /\ tabindex = [i \in 0 .. 2 |-> IF i = 0 THEN "-1" ELSE IF i = 1 THEN "unset" ELSE "0"]

\* The display name of tab i as the claim gives it: its data-tab-link-name,
\* or its text when that attribute is empty or absent.
C28_DisplayName(i) ==
    IF linkNames[i] \in {"", "null"} THEN linkTexts[i] ELSE linkNames[i]

\* C28: in dropdown layout with a dropdown label, in every state after mount
\* the text of the label is the display name of the active tab, also after
\* autoplay-driven and hash-driven activations and when the fragment at
\* mount selects another tab than the one pre-marked active.
C28_LabelShowsActiveTab ==
    (isMobileDropdown /\ dropdownToggle /\ dropdownText) =>
        textContent = C28_DisplayName(currentActiveIndex)

\* C28 witness: the autoplay timer wrapped from tab 1 (empty name attribute)
\* to tab 0, and the label shows the name attribute of tab 0.
C28_Witness ==
    /\ lastEvent = "timer"
    /\ isMobileDropdown /\ dropdownText
    /\ nLinks = 2 /\ currentActiveIndex = 0
    /\ now >= 2000
    /\ textContent = "Name0"

\* C29: without the hover-pause flag, or with autoplay disabled, mouseenter
\* and mouseleave on the component leave the paused flag, the elapsed time and
\* the pending timer (and everything else) unchanged; with the flag and
\* autoplay, mouseenter pauses (paused, no timer, the running segment added to
\* the elapsed time) and mouseleave resumes (not paused, one timer for the
\* remainder of the cycle).
C29_HoverOnlyWhenConfigured ==
    /\ [][(lastEvent' \in {"mouseenter", "mouseleave"}
           /\ (~autoplayHoverPause \/ ~autoplayEnabled)) =>
            UNCHANGED ProgramVars]_vars
    /\ [][(lastEvent' = "mouseenter" /\ autoplayHoverPause /\ autoplayEnabled) =>
            /\ isAutoplayPaused' /\ pausedClass'
            /\ timers' = {} /\ autoplayTimer' = NoTimer
            /\ autoplayElapsedTime' = autoplayElapsedTime + SegmentTime]_vars
    /\ [][(lastEvent' = "mouseleave" /\ autoplayHoverPause /\ autoplayEnabled) =>
            /\ ~isAutoplayPaused' /\ ~pausedClass'
            /\ autoplayElapsedTime' = autoplayElapsedTime
            /\ \E id \in 1 .. 3 :
                  /\ autoplayTimer' = id
                  /\ timers' = {[id |-> id,
                                 fireAt |-> now + autoplayDuration * MsPerSecond
                                                - autoplayElapsedTime,
                                 delay |-> autoplayDuration * MsPerSecond
                                               - autoplayElapsedTime]}]_vars

\* C29 witness: the pointer entered an autoplay group without the hover-pause
\* flag one second into the cycle, and autoplay is running with its timer.
C29_Witness ==
    /\ lastEvent = "mouseenter"
    /\ hovered
    /\ autoplayEnabled /\ ~autoplayHoverPause
    /\ ~isAutoplayPaused /\ autoplayElapsedTime = 0
    /\ now = 1000
    /\ \E u \in timers : u.fireAt = 5000

\* The time remaining in the cycle in state s: until the pending timer fires
\* while running, the duration less the elapsed time while paused.
C30_Remaining(s) ==
    IF s.isAutoplayPaused
    THEN s.autoplayDuration * MsPerSecond - s.autoplayElapsedTime
    ELSE LET u == CHOOSE u \in s.timers : TRUE IN u.fireAt - s.now

\* The waits between the two clicks of a pair, in ms.
C30_Waits == {d * MsPerSecond : d \in 0 .. MaxAdvance}

\* C30: each click on the autoplay toggle button flips isAutoplayPaused
\* (paused: resume, running: pause), so two clicks with nothing but the
\* passing of w ms in between restore the paused/running state, and the time
\* remaining in the cycle after the pair is the time remaining before it less
\* the time autoplay ran in between (w when the first click resumed, 0 when it
\* paused).
C30_ToggleFlips ==
    /\ [][(lastEvent' = "toggle") =>
            /\ isAutoplayPaused' = ~isAutoplayPaused
            /\ isAutoplayPaused' => timers' = {}
            /\ ~isAutoplayPaused' => Cardinality(timers') = 1]_vars
    /\ [](("autoplayToggle.click" \in listeners) =>
            \A w \in C30_Waits :
               LET s1 == autoplayToggleHandler(St)
                   ran == IF s1.isAutoplayPaused THEN 0 ELSE w
                   s2 == autoplayToggleHandler([s1 EXCEPT !.now = @ + w])
               IN  (s1.isAutoplayPaused \/ w <= C30_Remaining(s1)) =>
                      /\ s1.isAutoplayPaused = ~isAutoplayPaused
                      /\ s2.isAutoplayPaused = isAutoplayPaused
                      /\ C30_Remaining(s2) = C30_Remaining(St) - ran)

\* C30 witness: a group whose only pause source so far is the toggle button
\* (no hover-pause, no observer report yet), duration 5 s: paused by a click
\* at 1000 and resumed by the next click at 2000, with 4000 ms remaining as
\* before the pair.
C30_Witness ==
    /\ lastEvent = "toggle"
    /\ autoplayEnabled /\ ~autoplayHoverPause /\ visible = "none"
    /\ ~isAutoplayPaused
    /\ autoplayElapsedTime = 1000
    /\ now = 2000
    /\ timers = {[id |-> autoplayTimer, fireAt |-> 6000, delay |-> 4000]}

\* C31: for every value of the autoplay-duration attribute the configured
\* cycle length is greater than 0, so the delay of the cycle started at mount
\* is positive.  The code keeps a negative attribute value as the duration.
C31_DurationPositive ==
    (mountLog # <<>> /\ AllPiecesPresent /\ autoplayEnabled) =>
        /\ autoplayDuration > 0
        /\ \A u \in timers : u.delay > 0

\* The events of SpecPair that belong to group A.
EventsOfA == {"A.event", "A.timer"}

\* The pending timers of group g in the pool `pool`.
TimersOf(g, pool) == {u \in pool : u.id = g.autoplayTimer}

\* C32: with two groups on one page, a tab click, tab keydown, hover, toggle
\* click, timer fire or observer callback of group A leaves group B's active
\* index, paused flag, elapsed time and pending timer unchanged.  (A
\* hashchange is an event of the window, which the listeners of both groups
\* handle; it is not an event of group A.)
C32_GroupsIndependent ==
    [][(lastEvent' \in EventsOfA) =>
          /\ siblings'[1].currentActiveIndex = siblings[1].currentActiveIndex
          /\ siblings'[1].ariaSelected = siblings[1].ariaSelected
          /\ siblings'[1].isAutoplayPaused = siblings[1].isAutoplayPaused
          /\ siblings'[1].autoplayElapsedTime = siblings[1].autoplayElapsedTime
          /\ siblings'[1].autoplayTimer = siblings[1].autoplayTimer
          /\ siblings'[1].autoplayStartTime = siblings[1].autoplayStartTime
          /\ TimersOf(siblings'[1], timers') = TimersOf(siblings[1], timers)]_vars

\* C32 witness: group B is on its tab 1 since the mount with its timer
\* pending, and the timer of group A has just fired and moved A to its tab 1
\* with a fresh timer of its own.
C32_Witness ==
    /\ lastEvent = "A.timer"
    /\ now = 2000
    /\ currentActiveIndex = 1
    /\ siblings[1].currentActiveIndex = 1
    /\ siblings[1].autoplayStartTime = 0
    /\ TimersOf(siblings[1], timers)
          = {[id |-> siblings[1].autoplayTimer, fireAt |-> 2000, delay |-> 2000]}
    /\ TimersOf(St, timers) = {[id |-> autoplayTimer, fireAt |-> 4000, delay |-> 2000]}

\* C33: the cached window width changes only when the debounce timer fires;
\* every resize event leaves exactly one debounce timer pending, due 150 ms
\* after that event, so during a burst at most one timer is pending and the
\* cache is untouched until 150 ms have passed without a resize; once
\* resizing stops the cache eventually equals the window width and stays so.
C33_DebouncedWidth ==
    /\ [](Cardinality(resizeTimers) <= 1)
    /\ [][(innerWidth' # innerWidth) =>
            /\ cachedWindowWidth' = cachedWindowWidth
            /\ resizeTimers' = {[id |-> resizeTimer', fireAt |-> now + ResizeDebounce,
                                 delay |-> ResizeDebounce]}]_vars
    /\ [][(cachedWindowWidth' # cachedWindowWidth) =>
            /\ \E u \in resizeTimers : u.fireAt <= now
            /\ resizeTimers' = {}
            /\ cachedWindowWidth' = innerWidth]_vars
    /\ <>[](cachedWindowWidth = innerWidth)

\* C33 witness: two resize events less than 150 ms apart, the second to the
\* phone width at 100 ms; the first timer was cancelled, the second fired at
\* 250 ms and the cache holds the phone width.
C33_Witness ==
    /\ now = 250
    /\ resizeTimer = 2
    /\ resizeTimers = {}
    /\ innerWidth = MobileWidth
    /\ cachedWindowWidth = MobileWidth

\* C34: a timer step moves the active tab to the next index, wrapping from the
\* last to the first, and the passing of time moves nothing; so if from some
\* point on autoplay is not paused and only the clock and the timer act, the
\* tabs are visited in cyclic index order and every tab is active infinitely
\* often.
C34_Quiet == ~isAutoplayPaused /\ lastEvent \in {"timer", "tick"}

C34_AutoplayCycles ==
    /\ [][/\ (lastEvent' = "timer") =>
                currentActiveIndex' = (currentActiveIndex + 1) % nLinks
          /\ (lastEvent' = "tick") => currentActiveIndex' = currentActiveIndex]_vars
    /\ (<>[]C34_Quiet) =>
          \A i \in 0 .. (MaxTabs - 1) : []<>(currentActiveIndex = i)

\* C34 witness: the timer fired on the last tab of a running group and the
\* first tab is active again.
C34_Witness ==
    /\ lastEvent = "timer"
    /\ ~isAutoplayPaused
    /\ nLinks = MaxTabs
    /\ currentActiveIndex = 0
    /\ Cardinality(timers) = 1

\* C35: with autoplay enabled the root carries the class autoplay-paused
\* exactly when isAutoplayPaused is true, in every state; and after every
\* step that calls pauseAutoplay or resumeAutoplay (an observer report, a
\* toggle click, a hover event with the hover listeners registered) the
\* toggle button's aria-label is 'Play autoplay' if isAutoplayPaused and
\* 'Pause autoplay' otherwise.
C35_PauseOrResume ==
    \/ lastEvent' \in {"observe", "toggle"}
    \/ lastEvent' = "mouseenter" /\ "mouseenter" \in listeners
    \/ lastEvent' = "mouseleave" /\ "mouseleave" \in listeners

C35_PausedClassAndLabel ==
    /\ [](autoplayEnabled => (pausedClass <=> isAutoplayPaused))
    /\ [][(autoplayEnabled /\ toggleButton /\ C35_PauseOrResume) =>
            toggleLabel' = IF isAutoplayPaused' THEN "Play autoplay"
                           ELSE "Pause autoplay"]_vars

\* C35 witness: a toggle click has paused the group: class and label say so.
C35_Witness ==
    /\ lastEvent = "toggle"
    /\ autoplayEnabled /\ toggleButton
    /\ isAutoplayPaused /\ pausedClass
    /\ toggleLabel = "Play autoplay"

\* C36: an OS colour-scheme change while a script's preference is saved
\* leaves that script's mode classes on the document root unchanged, and
\* leaves every checkbox unchanged when every script of the page has its
\* preference saved.
C36_SavedPreferenceWins ==
    [][(prefersDark' # prefersDark) =>
         /\ ("theme" \in scripts /\ localStorage.savedTheme # "null") =>
               classList' \cap {"u-mode-light", "u-mode-dark"}
                  = classList \cap {"u-mode-light", "u-mode-dark"}
         /\ ("invert" \in scripts /\ localStorage.invertMode # "null") =>
               classList' \cap {"u-mode-invert", "u-mode-base"}
                  = classList \cap {"u-mode-invert", "u-mode-base"}
         /\ (/\ "theme" \in scripts => localStorage.savedTheme # "null"
             /\ "invert" \in scripts => localStorage.invertMode # "null") =>
               checkboxes' = checkboxes]_vars

\* C37: after destroy() no error has been raised, no observer is connected,
\* no listener of the registered types is left and no resize timer is
\* pending; after reinitialize() no error has been raised, init() has run
\* again (the lazy-load observer is connected) and every type has at most one
\* listener.
C37_RegisteredTypes == {"click", "play", "pause", "mouseenter", "mouseleave", "resize"}

C37_DestroyCleansUp ==
    /\ lastEvent = "destroy" =>
          /\ library.error = "none"
          /\ library.videoObserver # "observing"
          /\ library.scrollObserver # "observing"
          /\ \A ty \in C37_RegisteredTypes : library.domListeners[ty] = 0
          /\ library.resizeTimeout # "pending"
    /\ lastEvent = "reinitialize" =>
          /\ library.error = "none"
          /\ library.videoObserver = "observing"
          /\ \A ty \in C37_RegisteredTypes : library.domListeners[ty] <= 1

\* C38: when the user prefers reduced motion, the last call of video.play(),
\* if there was one, came from a click on the playback button.
C38_NoAutoPlayWhenReduced ==
    library.reduced => library.playBy \in {"none", "click"}

\* C38 witness: with reduced motion the video of a hover and scroll-in
\* configuration has loaded, the pointer is over it, it plays after a click
\* on its playback button, and the continuation of a playVideo call (the
\* only source of a microtask) has just run without a call of play().
C38_Witness ==
    /\ library.reduced /\ library.hover /\ library.scrollIn
    /\ library.ready /\ library.pointer
    /\ ~library.paused
    /\ library.playBy = "click"
    /\ lastEvent = "microtask"
    /\ library.microtasks = <<>>

\* C39: a hover video playing while the pointer is away from its trigger was
\* not started by the hover handler.
C39_PausedWhileAway ==
    (/\ library.hover
     /\ library.domListeners["mouseleave"] > 0
     /\ ~library.pointer
     /\ ~library.paused) => library.playBy # "hover"

\* C40: when no timer of reinitialize is pending, every slider element has
\* exactly one live instance, and it is the one in swiperInstance.
C40_OneLiveInstance ==
    sliders.timers = {} =>
       \A e \in 1 .. sliders.n :
          {id \in sliders.live : sliders.created[id] = e} = {sliders.swiperInstance[e]}

====
